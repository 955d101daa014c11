-------------------------- MODULE DistroDiskProofs --------------------------
(***************************************************************************)
(* Proofs about DistroDisk, for any number of builders and outputs and any *)
(* schedule of builds, guests, moves and kills.                            *)
(***************************************************************************)
EXTENDS DistroDisk, TLAPS

Provisioning == {"open", "guest", "verdict", "link", "manifest"}
Copying == {"copy disk", "copy record", "copy log", "copy boot", "pack"}
Copied == {"copy log", "copy boot", "pack"}

IsDisk(x) == x \in [serial : Nat, guest : Nat]

Shape ==
  /\ clock \in Nat
  /\ DOMAIN disk = Outputs /\ DOMAIN rec = Outputs /\ DOMAIN log = Outputs
  /\ pc \in [Builders -> Locations]
  /\ DOMAIN out = Builders /\ DOMAIN fp = Builders
  /\ DOMAIN work = Builders /\ DOMAIN record = Builders /\ DOMAIN stage = Builders
  /\ \A b \in Builders : DOMAIN stage[b] = Parts

\* A record that can be read has its disk beside it, and was made before any
\* guest was booted on it.
OutputInv(o) ==
  /\ disk[o] # None => IsDisk(disk[o])
  /\ rec[o] # None => disk[o] # None
  /\ rec[o] \notin {None, Torn} => rec[o].disk.guest = 0 /\ rec[o].disk.serial = disk[o].serial

\* Between the link and the manifest the disk is there without a record; once
\* a record has been compared it stays readable until the archive is packed.
BuilderInv(b) ==
  /\ pc[b] # "idle" => out[b] \in Outputs
  /\ pc[b] \in Provisioning => IsDisk(work[b]) /\ work[b].guest = 0
  /\ pc[b] \in {"link", "manifest"} => record[b].disk = work[b]
  /\ pc[b] = "manifest" => /\ disk[out[b]] # None /\ disk[out[b]].serial = work[b].serial
                           /\ rec[out[b]] = None
  /\ pc[b] \in Copying => rec[out[b]] \notin {None, Torn}
  /\ pc[b] \in Copied => stage[b]["rec"] \notin {None, Torn} /\ stage[b]["rec"].disk.guest = 0

ArchiveInv ==
  archive # None => archive["rec"] \notin {None, Torn} /\ archive["rec"].disk.guest = 0

DiskInv ==
  /\ Shape /\ ArchiveInv
  /\ \A o \in Outputs : OutputInv(o)
  /\ \A b \in Builders : BuilderInv(b)
  /\ \A b, c \in Builders : pc[b] = "manifest" /\ pc[c] = "manifest" /\ out[b] = out[c] => b = c

LEMMA DiskInit == Init => DiskInv
BY DEF Init, DiskInv, Shape, ArchiveInv, OutputInv, BuilderInv, Empty, Parts, Locations,
       Provisioning, Copying, Copied

\* Nothing of the other builders changes.
OthersKeep(b) ==
  \A c \in Builders \ {b} :
    pc'[c] = pc[c] /\ out'[c] = out[c] /\ work'[c] = work[c] /\ record'[c] = record[c]
      /\ stage'[c] = stage[c]

LEMMA ExitKeeps ==
  ASSUME Shape, NEW b \in Builders, Exit(b), clock' = clock,
         DOMAIN disk' = Outputs, DOMAIN rec' = Outputs, DOMAIN log' = Outputs
  PROVE  Shape' /\ OthersKeep(b) /\ pc'[b] = "idle"
BY DEF Shape, Exit, OthersKeep, Empty, Locations

LEMMA GotoKeeps ==
  ASSUME Shape, NEW b \in Builders, NEW x, NEW y \in Locations, Goto(b, x, y),
         UNCHANGED locals, clock' = clock,
         DOMAIN disk' = Outputs, DOMAIN rec' = Outputs, DOMAIN log' = Outputs
  PROVE  Shape' /\ OthersKeep(b) /\ pc[b] = x /\ pc'[b] = y
BY DEF Shape, Goto, OthersKeep, locals

\* A step of one builder that touches neither disks nor records nor the archive.
LEMMA LocalStep ==
  ASSUME DiskInv, NEW b \in Builders, Shape', UNCHANGED <<disk, rec, archive>>,
         OthersKeep(b), BuilderInv(b)', pc'[b] # "manifest"
  PROVE  DiskInv'
<1>1. \A o \in Outputs : OutputInv(o)'
  BY DEF DiskInv, OutputInv
<1>2. \A c \in Builders \ {b} : BuilderInv(c)'
  BY DEF DiskInv, BuilderInv, OthersKeep
<1>3. ArchiveInv'
  BY DEF DiskInv, ArchiveInv
<1>4. \A c, d \in Builders : pc'[c] = "manifest" /\ pc'[d] = "manifest" /\ out'[c] = out'[d] => c = d
  BY DEF DiskInv, OthersKeep
<1> QED
  BY <1>1, <1>2, <1>3, <1>4 DEF DiskInv

LEMMA BuiltStep ==
  ASSUME DiskInv, NEW b \in Builders, Built(b), pc[b] # "idle",
         UNCHANGED <<clock, disk, log, archive>>, DOMAIN rec' = Outputs
  PROVE  Shape' /\ OthersKeep(b) /\ pc'[b] \in {"idle", "check"}
           /\ (pc'[b] = "check" => out'[b] \in Outputs)
<1>1. CASE out[b] \in Pristine
  BY <1>1 DEF Built, DiskInv, Shape, BuilderInv, OthersKeep, locals, Locations
<1>2. CASE out[b] \notin Pristine
  BY <1>2, ExitKeeps DEF Built, DiskInv, Shape
<1> QED
  BY <1>1, <1>2

LEMMA BuildStep == ASSUME DiskInv, NEW b \in Builders, Build(b) PROVE DiskInv'
<1>1. Shape /\ BuilderInv(b) /\ \A o \in Outputs : OutputInv(o)
  BY DEF DiskInv
<1>2. CASE Reuse(b)
  <2>1. UNCHANGED <<clock, disk, rec, log, archive>> /\ pc[b] # "idle" /\ Built(b)
    BY <1>2 DEF Reuse, store
  <2>2. Shape' /\ OthersKeep(b) /\ pc'[b] \in {"idle", "check"}
           /\ (pc'[b] = "check" => out'[b] \in Outputs)
    BY <1>1, <2>1, BuiltStep DEF Shape
  <2>3. BuilderInv(b)'
    BY <2>2 DEF BuilderInv, Provisioning, Copying, Copied
  <2> QED
    BY <2>1, <2>2, <2>3, LocalStep
<1>3. CASE RefuseModified(b) \/ RefuseInputs(b)
  <2>1. UNCHANGED <<clock, disk, rec, log, archive>> /\ Exit(b)
    BY <1>3 DEF RefuseModified, RefuseInputs, store
  <2>2. Shape' /\ OthersKeep(b) /\ pc'[b] = "idle"
    BY <1>1, <2>1, ExitKeeps DEF Shape
  <2>3. BuilderInv(b)'
    BY <2>2 DEF BuilderInv, Provisioning, Copying, Copied
  <2> QED
    BY <2>1, <2>2, <2>3, LocalStep
<1>4. CASE Prepare(b)
  <2>1. /\ UNCHANGED <<disk, rec, log, archive, out, fp, record, stage>> /\ pc[b] = "decide"
        /\ clock' = clock + 1 /\ pc' = [pc EXCEPT ![b] = "open"]
        /\ work' = [work EXCEPT ![b] = Disk(clock, 0)]
    BY <1>4 DEF Prepare, Goto, store
  <2>2. Shape' /\ OthersKeep(b) /\ pc'[b] = "open" /\ work'[b] = Disk(clock, 0)
    <3>1. clock' \in Nat /\ pc' \in [Builders -> Locations] /\ DOMAIN work' = Builders
      <4>1. clock' \in Nat
        BY <1>1, <2>1 DEF Shape
      <4>2. "open" \in Locations
        BY DEF Locations
      <4>3. pc' \in [Builders -> Locations]
        BY <1>1, <2>1, <4>2 DEF Shape
      <4>4. DOMAIN work' = Builders
        BY <1>1, <2>1 DEF Shape
      <4> QED
        BY <4>1, <4>3, <4>4
    <3>2. pc'[b] = "open" /\ work'[b] = Disk(clock, 0)
      BY <1>1, <2>1 DEF Shape
    <3>3. OthersKeep(b)
      BY <1>1, <2>1 DEF Shape, OthersKeep
    <3> QED
      BY <1>1, <2>1, <3>1, <3>2, <3>3 DEF Shape
  <2>3. IsDisk(Disk(clock, 0)) /\ Disk(clock, 0).guest = 0
    BY <1>1 DEF Shape, IsDisk, Disk
  <2>4. BuilderInv(b)'
    BY <1>1, <2>1, <2>2, <2>3 DEF BuilderInv, Provisioning, Copying, Copied, IsDisk
  <2> QED
    BY <2>1, <2>2, <2>4, LocalStep
<1>5. CASE OpenLog(b) \/ \E v \in {"pass", "fail"} : Provision(b, v)
  <2>1. /\ UNCHANGED <<clock, disk, rec, archive>> /\ UNCHANGED locals /\ DOMAIN log' = Outputs
        /\ Goto(b, "open", "guest") \/ Goto(b, "guest", "verdict")
    BY <1>1, <1>5 DEF OpenLog, Provision, Shape
  <2>2. Shape' /\ OthersKeep(b) /\ pc[b] \in {"open", "guest"} /\ pc'[b] \in {"guest", "verdict"}
    BY <1>1, <2>1, GotoKeeps DEF Shape, Locations
  <2>3. BuilderInv(b)'
    BY <1>1, <2>1, <2>2 DEF BuilderInv, Provisioning, Copying, Copied, locals, IsDisk
  <2> QED
    BY <2>1, <2>2, <2>3, LocalStep
<1>6. CASE Assemble(b)
  <2>1. /\ UNCHANGED <<clock, disk, rec, log, archive, out, fp, work, stage>> /\ pc[b] = "verdict"
        /\ pc' = [pc EXCEPT ![b] = "link"]
        /\ record' = [record EXCEPT ![b] = Record(fp[b], work[b], boot, log[out[b]])]
    BY <1>6 DEF Assemble, Goto, store
  <2>2. /\ Shape' /\ OthersKeep(b) /\ pc'[b] = "link"
        /\ record'[b] = Record(fp[b], work[b], boot, log[out[b]])
    BY <1>1, <2>1 DEF Shape, OthersKeep, Locations
  <2>3. Record(fp[b], work[b], boot, log[out[b]]).disk = work[b]
    BY DEF Record
  <2>4. BuilderInv(b)'
    BY <1>1, <2>1, <2>2, <2>3 DEF BuilderInv, Provisioning, Copying, Copied, IsDisk
  <2> QED
    BY <2>1, <2>2, <2>4, LocalStep
<1>7. CASE Link(b)
  <2>1. /\ UNCHANGED <<clock, rec, log, archive>> /\ UNCHANGED locals /\ Goto(b, "link", "manifest")
        /\ disk[out[b]] = None /\ disk' = [disk EXCEPT ![out[b]] = work[b]]
    BY <1>7 DEF Link
  <2>2. Shape' /\ OthersKeep(b) /\ pc[b] = "link" /\ pc'[b] = "manifest"
    BY <1>1, <2>1, GotoKeeps DEF Shape, Locations
  <2>3. /\ out[b] \in Outputs /\ IsDisk(work[b]) /\ record[b].disk = work[b] /\ rec[out[b]] = None
        /\ work[b].guest = 0 /\ work[b] # None
    BY <1>1, <2>1, <2>2, NoneAssumption DEF BuilderInv, OutputInv, Provisioning, IsDisk
  <2>4. /\ disk'[out[b]] = work[b] /\ UNCHANGED <<out, work, record, stage>>
        /\ \A o \in Outputs : o # out[b] => disk'[o] = disk[o]
    BY <1>1, <2>1, <2>3 DEF Shape, locals
  <2>5. ASSUME NEW o \in Outputs PROVE OutputInv(o)'
    BY <1>1, <2>1, <2>3, <2>4 DEF OutputInv, IsDisk
  <2>6. BuilderInv(b)'
    BY <2>1, <2>2, <2>3, <2>4 DEF BuilderInv, Provisioning, Copying, Copied, IsDisk
  <2>7. ASSUME NEW c \in Builders, c # b PROVE BuilderInv(c)' /\ (pc[c] = "manifest" => out[c] # out[b])
    <3>1. BuilderInv(c) /\ pc'[c] = pc[c]
      BY <2>2, <2>7 DEF DiskInv, OthersKeep
    <3>2. pc[c] = "manifest" => out[c] # out[b]
      BY <2>1, <3>1 DEF BuilderInv
    <3>3. pc[c] = "manifest" => disk'[out[c]] = disk[out[c]]
      BY <2>4, <3>1, <3>2 DEF BuilderInv
    <3> QED
      BY <2>1, <2>4, <3>1, <3>2, <3>3 DEF BuilderInv
  <2>8. \A c, d \in Builders : pc'[c] = "manifest" /\ pc'[d] = "manifest" /\ out'[c] = out'[d] => c = d
    BY <2>2, <2>4, <2>7 DEF DiskInv, OthersKeep
  <2>9. ArchiveInv'
    BY <2>1 DEF DiskInv, ArchiveInv
  <2> QED
    BY <2>2, <2>5, <2>6, <2>7, <2>8, <2>9 DEF DiskInv
<1>8. CASE WriteManifest(b)
  <2>1. /\ UNCHANGED <<clock, disk, log, archive>> /\ pc[b] = "manifest" /\ Built(b)
        /\ rec' = [rec EXCEPT ![out[b]] = record[b]]
    BY <1>8 DEF WriteManifest
  <2>2. Shape' /\ OthersKeep(b) /\ pc'[b] \in {"idle", "check"}
           /\ (pc'[b] = "check" => out'[b] \in Outputs)
    BY <1>1, <2>1, BuiltStep DEF Shape
  <2>3. /\ out[b] \in Outputs /\ record[b].disk = work[b] /\ work[b].guest = 0
        /\ disk[out[b]] # None /\ disk[out[b]].serial = work[b].serial /\ rec[out[b]] = None
    BY <1>1, <2>1 DEF BuilderInv, Provisioning
  <2>4. rec'[out[b]] = record[b] /\ \A o \in Outputs : o # out[b] => rec'[o] = rec[o]
    BY <1>1, <2>1, <2>3 DEF Shape
  <2>5. ASSUME NEW o \in Outputs PROVE OutputInv(o)'
    BY <1>1, <2>1, <2>3, <2>4 DEF OutputInv, IsDisk
  <2>6. BuilderInv(b)'
    BY <2>2 DEF BuilderInv, Provisioning, Copying, Copied
  <2>7. ASSUME NEW c \in Builders, c # b PROVE BuilderInv(c)'
    <3>1. BuilderInv(c) /\ (pc[c] = "manifest" => out[c] # out[b])
      BY <2>1, <2>7 DEF DiskInv
    <3>2. pc[c] \in Copying => out[c] # out[b]
      BY <2>3, <3>1 DEF BuilderInv
    <3>3. /\ pc'[c] = pc[c] /\ out'[c] = out[c] /\ work'[c] = work[c] /\ record'[c] = record[c]
          /\ stage'[c] = stage[c]
      BY <2>2, <2>7 DEF OthersKeep
    <3>4. pc[c] = "manifest" \/ pc[c] \in Copying => rec'[out[c]] = rec[out[c]]
      BY <2>4, <3>1, <3>2 DEF BuilderInv, Copying
    <3> QED
      BY <2>1, <3>1, <3>3, <3>4 DEF BuilderInv
  <2>8. \A c, d \in Builders : pc'[c] = "manifest" /\ pc'[d] = "manifest" /\ out'[c] = out'[d] => c = d
    BY <2>2 DEF DiskInv, OthersKeep
  <2>9. ArchiveInv'
    BY <2>1 DEF DiskInv, ArchiveInv
  <2> QED
    BY <2>2, <2>5, <2>6, <2>7, <2>8, <2>9 DEF DiskInv
<1> QED
  BY <1>2, <1>3, <1>4, <1>5, <1>6, <1>7, <1>8 DEF Build

LEMMA PackageStep == ASSUME DiskInv, NEW b \in Builders, Package(b) PROVE DiskInv'
<1>1. Shape /\ BuilderInv(b) /\ \A o \in Outputs : OutputInv(o)
  BY DEF DiskInv
<1>2. CASE Check(b)
  <2>1. /\ UNCHANGED <<clock, disk, rec, log, archive>> /\ UNCHANGED locals
        /\ Goto(b, "check", "copy disk") /\ rec[out[b]] \notin {None, Torn}
    BY <1>2 DEF Check, store, Readable
  <2>2. Shape' /\ OthersKeep(b) /\ pc[b] = "check" /\ pc'[b] = "copy disk"
    BY <1>1, <2>1, GotoKeeps DEF Shape, Locations
  <2>3. BuilderInv(b)'
    BY <1>1, <2>1, <2>2 DEF BuilderInv, Provisioning, Copying, Copied, locals
  <2> QED
    BY <2>1, <2>2, <2>3, LocalStep
<1>3. ASSUME NEW part \in Parts, NEW x, NEW y \in Copying, NEW file, Copy(b, part, x, y, file),
             x \in Copying, (x \in Copied /\ part # "rec") \/ (part = "rec" /\ file = rec)
               \/ y \notin Copied
      PROVE  DiskInv'
  <2>1. /\ UNCHANGED <<clock, disk, rec, log, archive, out, fp, work, record>> /\ pc[b] = x
        /\ pc' = [pc EXCEPT ![b] = y]
        /\ stage' = [stage EXCEPT ![b] = [stage[b] EXCEPT ![part] = file[out[b]]]]
    BY <1>3 DEF Copy, Goto, store
  <2>2. /\ Shape' /\ OthersKeep(b) /\ pc'[b] = y
        /\ stage'[b] = [stage[b] EXCEPT ![part] = file[out[b]]]
    BY <1>1, <1>3, <2>1 DEF Shape, OthersKeep, Locations, Copying
  <2>3. out[b] \in Outputs /\ rec[out[b]] \notin {None, Torn} /\ rec[out[b]].disk.guest = 0
    BY <1>1, <1>3, <2>1 DEF BuilderInv, OutputInv, Copying
  <2>4. y \in Copied => stage'[b]["rec"] \notin {None, Torn} /\ stage'[b]["rec"].disk.guest = 0
    BY <1>1, <1>3, <2>1, <2>2, <2>3 DEF Shape, BuilderInv, Parts
  <2>5. BuilderInv(b)'
    BY <1>1, <1>3, <2>1, <2>2, <2>3, <2>4 DEF BuilderInv, Provisioning, Copying, Copied
  <2>6. pc'[b] # "manifest"
    BY <1>3, <2>2 DEF Copying
  <2> QED
    BY <2>1, <2>2, <2>5, <2>6, LocalStep
<1>4. CASE CopyDisk(b)
  BY <1>3, <1>4 DEF CopyDisk, Parts, Copying, Copied
<1>5. CASE CopyRecord(b)
  BY <1>3, <1>5 DEF CopyRecord, Parts, Copying, Copied
<1>6. CASE CopyLog(b)
  BY <1>3, <1>6 DEF CopyLog, Parts, Copying, Copied
<1>7. CASE CopyBoot(b)
  BY <1>3, <1>7 DEF CopyBoot, Parts, Copying, Copied
<1>8. CASE Pack(b)
  <2>1. UNCHANGED <<clock, disk, rec, log>> /\ Exit(b) /\ pc[b] = "pack" /\ archive' = stage[b]
    BY <1>8 DEF Pack
  <2>2. Shape' /\ OthersKeep(b) /\ pc'[b] = "idle"
    BY <1>1, <2>1, ExitKeeps DEF Shape
  <2>3. ArchiveInv'
    BY <1>1, <2>1 DEF ArchiveInv, BuilderInv, Copied
  <2>4. ASSUME NEW c \in Builders PROVE BuilderInv(c)'
    <3>1. CASE c = b
      BY <2>2, <3>1 DEF BuilderInv, Provisioning, Copying, Copied
    <3>2. CASE c # b
      BY <2>1, <2>2, <3>2 DEF DiskInv, BuilderInv, OthersKeep
    <3> QED
      BY <3>1, <3>2
  <2>5. \A o \in Outputs : OutputInv(o)'
    BY <1>1, <2>1 DEF OutputInv
  <2>6. \A c, d \in Builders : pc'[c] = "manifest" /\ pc'[d] = "manifest" /\ out'[c] = out'[d] => c = d
    BY <2>2 DEF DiskInv, OthersKeep
  <2> QED
    BY <2>2, <2>3, <2>4, <2>5, <2>6 DEF DiskInv
<1> QED
  BY <1>2, <1>4, <1>5, <1>6, <1>7, <1>8 DEF Package

LEMMA StopStep == ASSUME DiskInv, NEW b \in Builders, Stop(b) PROVE DiskInv'
<1>1. Shape /\ BuilderInv(b) /\ \A o \in Outputs : OutputInv(o)
  BY DEF DiskInv
<1>2. /\ UNCHANGED <<clock, disk, log, archive>> /\ Exit(b)
      /\ rec' = rec \/ (pc[b] = "manifest" /\ rec' = [rec EXCEPT ![out[b]] = Torn])
  BY DEF Stop
<1>3. Shape' /\ OthersKeep(b) /\ pc'[b] = "idle"
  BY <1>1, <1>2, ExitKeeps DEF Shape
<1>4. \A o \in Outputs : rec'[o] = rec[o] \/ (pc[b] = "manifest" /\ o = out[b] /\ rec'[o] = Torn)
  BY <1>1, <1>2 DEF Shape
<1>5. pc[b] = "manifest" => out[b] \in Outputs /\ disk[out[b]] # None /\ rec[out[b]] = None
  BY <1>1 DEF BuilderInv
<1>6. \A o \in Outputs : OutputInv(o)'
  BY <1>1, <1>2, <1>4, <1>5 DEF OutputInv
<1>7. ASSUME NEW c \in Builders, c # b PROVE BuilderInv(c)'
  <2>1. BuilderInv(c) /\ (pc[b] = "manifest" /\ pc[c] = "manifest" => out[c] # out[b])
    BY <1>7 DEF DiskInv
  <2>2. pc[b] = "manifest" /\ pc[c] \in Copying => out[c] # out[b]
    BY <1>5, <2>1 DEF BuilderInv
  <2>3. /\ pc'[c] = pc[c] /\ out'[c] = out[c] /\ work'[c] = work[c] /\ record'[c] = record[c]
        /\ stage'[c] = stage[c]
    BY <1>3, <1>7 DEF OthersKeep
  <2>4. pc[c] = "manifest" \/ pc[c] \in Copying => rec'[out[c]] = rec[out[c]]
    BY <1>4, <2>1, <2>2 DEF BuilderInv, Copying
  <2> QED
    BY <1>2, <2>1, <2>3, <2>4 DEF BuilderInv
<1>8. BuilderInv(b)'
  BY <1>3 DEF BuilderInv, Provisioning, Copying, Copied
<1>9. \A c, d \in Builders : pc'[c] = "manifest" /\ pc'[d] = "manifest" /\ out'[c] = out'[d] => c = d
  BY <1>3 DEF DiskInv, OthersKeep
<1>10. ArchiveInv'
  BY <1>2 DEF DiskInv, ArchiveInv
<1> QED
  BY <1>3, <1>6, <1>7, <1>8, <1>9, <1>10 DEF DiskInv

LEMMA StartStep == ASSUME DiskInv, NEW b \in Builders, NEW o \in Outputs, Start(b, o) PROVE DiskInv'
<1>1. Shape
  BY DEF DiskInv
<1>2. /\ UNCHANGED <<clock, disk, rec, log, archive, work, record, stage>>
      /\ pc' = [pc EXCEPT ![b] = "decide"] /\ out' = [out EXCEPT ![b] = o]
      /\ fp' = [fp EXCEPT ![b] = src]
  BY DEF Start, Goto, store
<1>3. Shape' /\ OthersKeep(b) /\ pc'[b] = "decide" /\ out'[b] = o
  BY <1>1, <1>2 DEF Shape, OthersKeep, Locations
<1>4. BuilderInv(b)'
  BY <1>3 DEF BuilderInv, Provisioning, Copying, Copied
<1> QED
  BY <1>2, <1>3, <1>4, LocalStep

LEMMA UserStep == ASSUME DiskInv, NEW o \in Outputs, UseDisk(o) \/ MoveAside(o) PROVE DiskInv'
<1>1. Shape /\ ArchiveInv /\ (\A x \in Outputs : OutputInv(x)) /\ (\A b \in Builders : BuilderInv(b))
  BY DEF DiskInv
<1>2. CASE UseDisk(o)
  <2>1. /\ UNCHANGED <<clock, rec, log, archive, pc>> /\ UNCHANGED locals
        /\ disk[o] # None /\ disk' = [disk EXCEPT ![o] = Disk(disk[o].serial, disk[o].guest + 1)]
    BY <1>2 DEF UseDisk
  <2>2. IsDisk(disk[o])
    BY <1>1, <2>1 DEF OutputInv
  <2>3. /\ IsDisk(disk'[o]) /\ disk'[o].serial = disk[o].serial
        /\ \A x \in Outputs : x # o => disk'[x] = disk[x]
    BY <1>1, <2>1, <2>2 DEF Shape, IsDisk, Disk
  <2>4. disk'[o] # None
    BY <2>3, NoneAssumption DEF IsDisk
  <2>5. \A x \in Outputs : (disk[x] # None => disk'[x] # None /\ disk'[x].serial = disk[x].serial)
    BY <2>3, <2>4
  <2>6. ASSUME NEW x \in Outputs PROVE OutputInv(x)'
    BY <1>1, <2>1, <2>3, <2>4 DEF OutputInv, IsDisk
  <2>7. ASSUME NEW b \in Builders PROVE BuilderInv(b)'
    BY <1>1, <2>1, <2>5 DEF BuilderInv, locals
  <2>8. Shape'
    BY <1>1, <2>1 DEF Shape, locals
  <2> QED
    BY <1>1, <2>1, <2>6, <2>7, <2>8 DEF DiskInv, ArchiveInv, locals
<1>3. CASE MoveAside(o)
  <2>1. /\ UNCHANGED <<clock, log, archive, pc>> /\ UNCHANGED locals
        /\ disk' = [disk EXCEPT ![o] = None] /\ rec' = [rec EXCEPT ![o] = None]
        /\ \A b \in Builders : pc[b] # "idle" => out[b] # o
    BY <1>3 DEF MoveAside
  <2>2. /\ disk'[o] = None /\ rec'[o] = None
        /\ \A x \in Outputs : x # o => disk'[x] = disk[x] /\ rec'[x] = rec[x]
    BY <1>1, <2>1 DEF Shape
  <2>3. ASSUME NEW x \in Outputs PROVE OutputInv(x)'
    BY <1>1, <2>2 DEF OutputInv, IsDisk
  <2>4. ASSUME NEW b \in Builders PROVE BuilderInv(b)'
    <3>1. BuilderInv(b) /\ (pc[b] # "idle" => disk'[out[b]] = disk[out[b]] /\ rec'[out[b]] = rec[out[b]])
      BY <1>1, <2>1, <2>2 DEF BuilderInv
    <3> QED
      BY <2>1, <3>1 DEF BuilderInv, locals, Provisioning, Copying, Copied
  <2>5. Shape'
    BY <1>1, <2>1 DEF Shape, locals
  <2> QED
    BY <1>1, <2>1, <2>3, <2>4, <2>5 DEF DiskInv, ArchiveInv, locals
<1> QED
  BY <1>2, <1>3

LEMMA Idle ==
  ASSUME DiskInv, UNCHANGED <<clock, store, pc, locals>>
  PROVE  DiskInv'
BY DEF DiskInv, Shape, ArchiveInv, OutputInv, BuilderInv, store, locals, IsDisk

LEMMA DiskStep == DiskInv /\ [Next]_vars => DiskInv'
<1> SUFFICES ASSUME DiskInv, [Next]_vars PROVE DiskInv'
  OBVIOUS
<1>1. CASE (\E r \in 1..MaxRev : Edit(r)) \/ RebuildBoot \/ UNCHANGED vars
  BY <1>1, Idle DEF Edit, RebuildBoot, vars
<1> QED
  BY <1>1, UserStep, StartStep, BuildStep, PackageStep, StopStep DEF Next

LEMMA DiskAlways == Spec => []DiskInv
BY DiskInit, DiskStep, PTL DEF Spec

\* The record beside a disk is of that disk, whoever else builds the output and
\* wherever a build is killed.
THEOREM RecordCorrect == Spec => []RecordOfDisk
<1>1. DiskInv => RecordOfDisk
  BY DEF DiskInv, OutputInv, RecordOfDisk, Readable
<1> QED
  BY <1>1, DiskAlways, PTL

\* An archive that passes the audit of distro_runtime.py has the disk as it was
\* provisioned, whatever happens while it is packaged.
THEOREM ArchiveCorrect == Spec => []AuditedIsPristine
<1>1. DiskInv => AuditedIsPristine
  BY DEF DiskInv, ArchiveInv, AuditedIsPristine, Audited
<1> QED
  BY <1>1, DiskAlways, PTL

\* No disk in place is replaced, however many builds of it race: what guests
\* have written to it is kept until the user moves it aside.
THEOREM DiskPreserved == Spec => NeverOverwritten
<1> DEFINE Kept == \A o \in Outputs : disk[o] # None /\ disk'[o] # None =>
                     disk'[o].serial = disk[o].serial /\ disk'[o].guest >= disk[o].guest
<1>1. ASSUME DiskInv, [Next]_vars PROVE [Kept]_vars
  <2>1. Shape /\ (\A o \in Outputs : OutputInv(o)) /\ (\A b \in Builders : BuilderInv(b))
    BY <1>1 DEF DiskInv
  <2>2. \A o \in Outputs : disk[o] # None => disk[o].guest \in Nat /\ disk[o].guest >= disk[o].guest
    BY <2>1 DEF OutputInv, IsDisk
  <2>3. CASE disk' = disk
    BY <2>2, <2>3
  <2>4. ASSUME NEW x \in Outputs, UseDisk(x) PROVE Kept
    BY <2>1, <2>2, <2>4 DEF UseDisk, Shape, Disk
  <2>5. ASSUME NEW x \in Outputs, MoveAside(x) PROVE Kept
    BY <2>1, <2>2, <2>5 DEF MoveAside, Shape
  <2>6. ASSUME NEW b \in Builders, Link(b) PROVE Kept
    <3>1. out[b] \in Outputs /\ disk[out[b]] = None
      BY <2>1, <2>6 DEF Link, Goto, BuilderInv
    <3>2. \A o \in Outputs : disk[o] # None => disk'[o] = disk[o]
      BY <2>1, <2>6, <3>1 DEF Link, Shape
    <3> QED
      BY <2>2, <3>2
  <2>7. ASSUME NEW b \in Builders, Build(b) PROVE Kept \/ disk' = disk
    BY <2>6, <2>7 DEF Build, Reuse, RefuseModified, RefuseInputs, Prepare, OpenLog, Provision,
                      Assemble, WriteManifest, store
  <2>8. ASSUME NEW b \in Builders, Package(b) \/ Stop(b) \/ \E o \in Outputs : Start(b, o)
        PROVE  disk' = disk
    BY <2>8 DEF Package, Check, CopyDisk, CopyRecord, CopyLog, CopyBoot, Copy, Pack, Stop, Start, store
  <2>9. CASE (\E r \in 1..MaxRev : Edit(r)) \/ RebuildBoot \/ UNCHANGED vars
    BY <2>3, <2>9 DEF Edit, RebuildBoot, vars, store
  <2> QED
    BY <1>1, <2>3, <2>4, <2>5, <2>7, <2>8, <2>9 DEF Next
<1> QED
  BY <1>1, DiskAlways, PTL DEF Spec, NeverOverwritten

-----------------------------------------------------------------------------
TypedRecord(r) ==
  r.inputs \in 1..MaxRev /\ r.disk \in Disks /\ r.boot \in 1..MaxBoot /\ r.log \in Logs

\* What a builder holds at each location, from which a record is made; the disk
\* it goes on to package is there.
BuilderTyped(b) ==
  /\ pc[b] # "idle" => fp[b] \in 1..MaxRev
  /\ pc[b] \in Provisioning => \E s \in 1..MaxDisks : work[b] = Disk(s, 0)
  /\ pc[b] \in {"link", "manifest"} => TypedRecord(record[b])
  /\ pc[b] = "check" => disk[out[b]] # None

RangeInv ==
  /\ src \in 1..MaxRev /\ boot \in 1..MaxBoot /\ clock \in 1..MaxDisks
  /\ disk \in [Outputs -> Disks \cup {None}]
  /\ log \in [Outputs -> Logs]
  /\ out \in [Builders -> Outputs \cup {None}]
  /\ \A o \in Outputs : Readable(o) => TypedRecord(rec[o])
  /\ \A b \in Builders : BuilderTyped(b)

LEMMA RangeInit == Init => RangeInv
BY BoundAssumption DEF Init, RangeInv, BuilderTyped, Provisioning, Readable, Logs

\* A step of b that takes no disk away.
Mine(b) ==
  /\ \A c \in Builders \ {b} :
       /\ pc'[c] = pc[c] /\ out'[c] = out[c] /\ fp'[c] = fp[c]
       /\ work'[c] = work[c] /\ record'[c] = record[c]
  /\ \A o \in Outputs : disk[o] # None => disk'[o] # None

LEMMA MineTyped ==
  ASSUME DiskInv, RangeInv, NEW b \in Builders, Mine(b), BuilderTyped(b)'
  PROVE  \A c \in Builders : BuilderTyped(c)'
<1>1. ASSUME NEW c \in Builders, c # b PROVE BuilderTyped(c)'
  <2>1. BuilderTyped(c) /\ (pc[c] # "idle" => out[c] \in Outputs)
    BY DEF DiskInv, BuilderInv, RangeInv
  <2>2. /\ pc'[c] = pc[c] /\ out'[c] = out[c] /\ fp'[c] = fp[c]
        /\ work'[c] = work[c] /\ record'[c] = record[c]
    BY <1>1 DEF Mine
  <2>3. pc[c] = "check" => disk'[out[c]] # None
    BY <2>1 DEF BuilderTyped, Mine
  <2> QED
    BY <2>1, <2>2, <2>3 DEF BuilderTyped, TypedRecord
<1> QED
  BY <1>1

\* The scripts end, and nothing of the outputs changes but, perhaps, a record.
LEMMA ExitMine ==
  ASSUME Shape, NEW b \in Builders, Exit(b), disk' = disk
  PROVE  Mine(b) /\ BuilderTyped(b)'
BY DEF Shape, Exit, Mine, BuilderTyped, Provisioning

LEMMA ExitOut ==
  ASSUME RangeInv, NEW b \in Builders, Exit(b)
  PROVE  out' \in [Builders -> Outputs \cup {None}]
BY DEF RangeInv, Exit

LEMMA BuiltTyped ==
  ASSUME DiskInv, RangeInv, NEW b \in Builders, Built(b), pc[b] # "idle",
         disk' = disk, disk[out[b]] # None
  PROVE  /\ \A c \in Builders : BuilderTyped(c)'
         /\ out' \in [Builders -> Outputs \cup {None}]
<1>1. Shape /\ BuilderTyped(b)
  BY DEF DiskInv, RangeInv
<1>2. CASE out[b] \in Pristine
  <2>1. pc' = [pc EXCEPT ![b] = "check"] /\ UNCHANGED locals
    BY <1>2 DEF Built
  <2>2. Mine(b) /\ BuilderTyped(b)'
    BY <1>1, <2>1 DEF Mine, Shape, locals, BuilderTyped, Provisioning
  <2> QED
    BY <2>1, <2>2, MineTyped DEF RangeInv, locals
<1>3. CASE out[b] \notin Pristine
  BY <1>1, <1>3, ExitMine, ExitOut, MineTyped DEF Built
<1> QED
  BY <1>2, <1>3

\* A step of the builder b that moves on with its locals as they are.
LEMMA GotoMine ==
  ASSUME Shape, NEW b \in Builders, NEW x, NEW y, Goto(b, x, y), UNCHANGED <<out, fp, work, record>>,
         \A o \in Outputs : disk[o] # None => disk'[o] # None
  PROVE  Mine(b) /\ pc[b] = x /\ pc'[b] = y
BY DEF Shape, Goto, Mine

LEMMA RangeBuild == ASSUME DiskInv, RangeInv, NEW b \in Builders, Build(b) PROVE RangeInv'
<1>1. Shape /\ BuilderInv(b) /\ BuilderTyped(b)
  BY DEF DiskInv, RangeInv
<1>2. CASE Reuse(b)
  <2>1. UNCHANGED <<src, boot, clock, disk, rec, log>> /\ Built(b) /\ pc[b] # "idle" /\ disk[out[b]] # None
    BY <1>2 DEF Reuse, store
  <2> QED
    BY <2>1, BuiltTyped DEF RangeInv, Readable
<1>3. CASE RefuseModified(b) \/ RefuseInputs(b)
  <2>1. UNCHANGED <<src, boot, clock, disk, rec, log>> /\ Exit(b)
    BY <1>3 DEF RefuseModified, RefuseInputs, store
  <2> QED
    BY <1>1, <2>1, ExitMine, ExitOut, MineTyped DEF RangeInv, Readable
<1>4. CASE Prepare(b)
  <2>1. /\ UNCHANGED <<src, boot, disk, rec, log, out, fp, record>> /\ pc[b] = "decide"
        /\ pc' = [pc EXCEPT ![b] = "open"] /\ clock < MaxDisks /\ clock' = clock + 1
        /\ work' = [work EXCEPT ![b] = Disk(clock, 0)]
    BY <1>4 DEF Prepare, Goto, store
  <2>2. clock' \in 1..MaxDisks /\ clock \in 1..MaxDisks
    BY <2>1, BoundAssumption DEF RangeInv
  <2>3. Mine(b) /\ pc'[b] = "open" /\ work'[b] = Disk(clock, 0) /\ fp'[b] = fp[b]
    BY <1>1, <2>1 DEF Mine, Shape
  <2>4. BuilderTyped(b)'
    BY <1>1, <2>1, <2>2, <2>3 DEF BuilderTyped
  <2> QED
    BY <2>1, <2>2, <2>3, <2>4, MineTyped DEF RangeInv, Readable
<1>5. CASE OpenLog(b) \/ \E v \in {"pass", "fail"} : Provision(b, v)
  <2>1. /\ UNCHANGED <<src, boot, clock, disk, rec>> /\ UNCHANGED <<out, fp, work, record>>
        /\ Goto(b, "open", "guest") \/ Goto(b, "guest", "verdict")
    BY <1>5 DEF OpenLog, Provision, locals
  <2>2. Mine(b) /\ pc[b] \in {"open", "guest"} /\ pc'[b] \in {"guest", "verdict"}
    BY <1>1, <2>1, GotoMine
  <2>3. BuilderTyped(b)'
    BY <1>1, <2>1, <2>2 DEF BuilderTyped, Provisioning
  <2>4. log' \in [Outputs -> Logs]
    <3>1. CASE OpenLog(b)
      <4>1. {} \in Logs
        BY DEF Logs
      <4>2. log' = [log EXCEPT ![out[b]] = {}]
        BY <3>1 DEF OpenLog
      <4> QED
        BY <4>1, <4>2 DEF RangeInv
    <3>2. ASSUME NEW v \in {"pass", "fail"}, Provision(b, v) PROVE log' \in [Outputs -> Logs]
      <4>1. log' = [log EXCEPT ![out[b]] = log[out[b]] \cup {Verdict(work[b].serial, v)}]
        BY <3>2 DEF Provision
      <4>2. PICK s \in 1..MaxDisks : work[b] = Disk(s, 0)
        BY <1>1, <2>2 DEF BuilderTyped, Provisioning
      <4>3. Verdict(work[b].serial, v) \in {Verdict(t, w) : t \in 1..MaxDisks, w \in {"pass", "fail"}}
        BY <4>2 DEF Disk
      <4>4. \A o \in Outputs : log[o] \in Logs /\ log[o] \cup {Verdict(work[b].serial, v)} \in Logs
        BY <4>3 DEF RangeInv, Logs
      <4> QED
        BY <4>1, <4>4 DEF RangeInv
    <3> QED
      BY <1>5, <3>1, <3>2
  <2> QED
    BY <2>1, <2>2, <2>3, <2>4, MineTyped DEF RangeInv, Readable
<1>6. CASE Assemble(b)
  <2>1. /\ UNCHANGED <<src, boot, clock, disk, rec, log, out, fp, work>> /\ pc[b] = "verdict"
        /\ pc' = [pc EXCEPT ![b] = "link"]
        /\ record' = [record EXCEPT ![b] = Record(fp[b], work[b], boot, log[out[b]])]
    BY <1>6 DEF Assemble, Goto, store
  <2>2. Mine(b) /\ pc'[b] = "link" /\ record'[b] = Record(fp[b], work[b], boot, log[out[b]])
    BY <1>1, <2>1 DEF Mine, Shape
  <2>3. /\ fp[b] \in 1..MaxRev /\ \E s \in 1..MaxDisks : work[b] = Disk(s, 0)
        /\ out[b] \in Outputs
    BY <1>1, <2>1 DEF BuilderTyped, BuilderInv, Provisioning
  <2>4. TypedRecord(Record(fp[b], work[b], boot, log[out[b]]))
    <3>1. work[b] \in Disks
      BY <2>3, BoundAssumption DEF Disks
    <3> QED
      BY <2>3, <3>1 DEF RangeInv, TypedRecord, Record
  <2>5. BuilderTyped(b)'
    BY <2>1, <2>2, <2>3, <2>4 DEF BuilderTyped, TypedRecord
  <2> QED
    BY <2>1, <2>2, <2>5, MineTyped DEF RangeInv, Readable
<1>7. CASE Link(b)
  <2>1. /\ UNCHANGED <<src, boot, clock, rec, log>> /\ UNCHANGED <<out, fp, work, record>>
        /\ Goto(b, "link", "manifest") /\ disk' = [disk EXCEPT ![out[b]] = work[b]]
    BY <1>7 DEF Link, locals
  <2>2. pc[b] = "link" /\ IsDisk(work[b]) /\ \E s \in 1..MaxDisks : work[b] = Disk(s, 0)
    BY <1>1, <2>1 DEF Goto, BuilderTyped, BuilderInv, Provisioning
  <2>3. work[b] \in Disks /\ work[b] # None
    BY <2>2, BoundAssumption, NoneAssumption DEF Disks, IsDisk
  <2>4. disk' \in [Outputs -> Disks \cup {None}] /\ \A o \in Outputs : disk[o] # None => disk'[o] # None
    BY <2>1, <2>3 DEF RangeInv
  <2>5. Mine(b) /\ pc'[b] = "manifest"
    BY <1>1, <2>1, <2>4, GotoMine
  <2>6. BuilderTyped(b)'
    BY <1>1, <2>1, <2>2, <2>5 DEF BuilderTyped, Provisioning, TypedRecord
  <2> QED
    BY <2>1, <2>4, <2>5, <2>6, MineTyped DEF RangeInv, Readable
<1>8. CASE WriteManifest(b)
  <2>1. /\ UNCHANGED <<src, boot, clock, disk, log>> /\ pc[b] = "manifest" /\ Built(b)
        /\ rec' = [rec EXCEPT ![out[b]] = record[b]]
    BY <1>8 DEF WriteManifest
  <2>2. disk[out[b]] # None /\ TypedRecord(record[b])
    BY <1>1, <2>1 DEF BuilderInv, BuilderTyped
  <2>3. \A o \in Outputs : rec'[o] = rec[o] \/ rec'[o] = record[b]
    BY <1>1, <2>1 DEF Shape
  <2>4. (\A c \in Builders : BuilderTyped(c)') /\ out' \in [Builders -> Outputs \cup {None}]
    BY <2>1, <2>2, BuiltTyped
  <2>5. \A o \in Outputs : Readable(o)' => TypedRecord(rec'[o])
    BY <2>2, <2>3 DEF RangeInv, Readable
  <2> QED
    BY <2>1, <2>4, <2>5 DEF RangeInv, TypedRecord
<1> QED
  BY <1>2, <1>3, <1>4, <1>5, <1>6, <1>7, <1>8 DEF Build

LEMMA RangePackage == ASSUME DiskInv, RangeInv, NEW b \in Builders, Package(b) PROVE RangeInv'
<1>1. Shape /\ BuilderTyped(b)
  BY DEF DiskInv, RangeInv
<1>2. UNCHANGED <<src, boot, clock, disk, rec, log>>
  BY DEF Package, Check, CopyDisk, CopyRecord, CopyLog, CopyBoot, Copy, Pack, store
<1>3. CASE Pack(b)
  BY <1>1, <1>2, <1>3, ExitMine, ExitOut, MineTyped DEF Pack, RangeInv, Readable
<1>4. CASE ~Pack(b)
  <2>1. /\ UNCHANGED <<out, fp, work, record>>
        /\ \E x \in Copying \cup {"check"}, y \in Copying : Goto(b, x, y)
    BY <1>4 DEF Package, Check, CopyDisk, CopyRecord, CopyLog, CopyBoot, Copy, locals, Copying
  <2>2. Mine(b) /\ pc[b] # "idle" /\ pc'[b] \in Copying
    BY <1>1, <1>2, <2>1, GotoMine DEF Copying
  <2>3. BuilderTyped(b)'
    BY <1>1, <2>1, <2>2 DEF BuilderTyped, Copying, Provisioning
  <2> QED
    BY <1>2, <2>1, <2>2, <2>3, MineTyped DEF RangeInv, Readable
<1> QED
  BY <1>3, <1>4

LEMMA RangeStop == ASSUME DiskInv, RangeInv, NEW b \in Builders, Stop(b) PROVE RangeInv'
<1>1. Shape
  BY DEF DiskInv
<1>2. /\ UNCHANGED <<src, boot, clock, disk, log>> /\ Exit(b)
      /\ \A o \in Outputs : rec'[o] = rec[o] \/ rec'[o] = Torn
  BY <1>1 DEF Stop, Shape
<1>3. (\A c \in Builders : BuilderTyped(c)') /\ out' \in [Builders -> Outputs \cup {None}]
  BY <1>1, <1>2, ExitMine, ExitOut, MineTyped
<1> QED
  BY <1>2, <1>3 DEF RangeInv, Readable, TypedRecord

LEMMA RangeStart ==
  ASSUME DiskInv, RangeInv, NEW b \in Builders, NEW o \in Outputs, Start(b, o)
  PROVE  RangeInv'
<1>1. Shape
  BY DEF DiskInv
<1>2. /\ UNCHANGED <<src, boot, clock, disk, rec, log, work, record>>
      /\ pc' = [pc EXCEPT ![b] = "decide"]
      /\ out' = [out EXCEPT ![b] = o] /\ fp' = [fp EXCEPT ![b] = src]
  BY DEF Start, Goto, store
<1>3. Mine(b) /\ BuilderTyped(b)'
  BY <1>1, <1>2 DEF Mine, Shape, RangeInv, BuilderTyped, Provisioning
<1> QED
  BY <1>2, <1>3, MineTyped DEF RangeInv, Readable

LEMMA RangeUser ==
  ASSUME DiskInv, RangeInv, NEW o \in Outputs, UseDisk(o) \/ MoveAside(o)
  PROVE  RangeInv'
<1>1. UNCHANGED <<src, boot, clock, log, pc, locals>>
  BY DEF UseDisk, MoveAside
<1>2. \A b \in Builders : pc[b] # "idle" => out[b] \in Outputs
  BY DEF DiskInv, BuilderInv
<1>3. CASE UseDisk(o)
  <2>1. /\ rec' = rec /\ disk[o] # None /\ disk[o].guest < MaxGuest
        /\ disk' = [disk EXCEPT ![o] = Disk(disk[o].serial, disk[o].guest + 1)]
    BY <1>3 DEF UseDisk
  <2>2. PICK s \in 1..MaxDisks, g \in 0..MaxGuest : disk[o] = Disk(s, g)
    BY <2>1 DEF RangeInv, Disks
  <2>3. disk[o].serial = s /\ disk[o].guest = g /\ g + 1 \in 0..MaxGuest
    BY <2>1, <2>2, BoundAssumption DEF Disk
  <2>4. Disk(s, g + 1) \in Disks /\ Disk(s, g + 1) # None
    BY <2>3, BoundAssumption, NoneAssumption DEF Disks, Disk
  <2>5. /\ disk' \in [Outputs -> Disks \cup {None}]
        /\ \A u \in Outputs : disk[u] # None => disk'[u] # None
    BY <2>1, <2>3, <2>4 DEF RangeInv
  <2>6. \A b \in Builders : BuilderTyped(b)'
    BY <1>1, <1>2, <2>5 DEF RangeInv, BuilderTyped, TypedRecord, locals
  <2> QED
    BY <1>1, <2>1, <2>5, <2>6 DEF RangeInv, Readable, TypedRecord, locals
<1>4. CASE MoveAside(o)
  <2>1. /\ disk' = [disk EXCEPT ![o] = None] /\ rec' = [rec EXCEPT ![o] = None]
        /\ \A b \in Builders : pc[b] # "idle" => out[b] # o
    BY <1>4 DEF MoveAside
  <2>2. \A u \in Outputs : u # o => disk'[u] = disk[u] /\ rec'[u] = rec[u]
    BY <2>1 DEF DiskInv, Shape
  <2>3. disk' \in [Outputs -> Disks \cup {None}] /\ rec'[o] = None
    BY <2>1 DEF DiskInv, Shape, RangeInv
  <2>4. \A b \in Builders : BuilderTyped(b)'
    BY <1>1, <1>2, <2>1, <2>2 DEF RangeInv, BuilderTyped, TypedRecord, locals
  <2> QED
    BY <1>1, <2>2, <2>3, <2>4 DEF RangeInv, Readable, TypedRecord, locals
<1> QED
  BY <1>3, <1>4

LEMMA RangeStep == DiskInv /\ RangeInv /\ [Next]_vars => RangeInv'
<1> SUFFICES ASSUME DiskInv, RangeInv, [Next]_vars PROVE RangeInv'
  OBVIOUS
<1>1. CASE (\E r \in 1..MaxRev : Edit(r)) \/ RebuildBoot \/ UNCHANGED vars
  <2>1. /\ src' \in 1..MaxRev /\ boot' \in 1..MaxBoot
        /\ UNCHANGED <<clock, disk, rec, log, pc, out, fp, work, record>>
    BY <1>1, BoundAssumption DEF Edit, RebuildBoot, vars, store, locals, RangeInv
  <2> QED
    BY <2>1 DEF RangeInv, BuilderTyped, TypedRecord, Readable
<1> QED
  BY <1>1, RangeUser, RangeStart, RangeBuild, RangePackage, RangeStop DEF Next

\* Every disk, record, log and local keeps its shape; a record has its disk
\* beside it, and a builder that links or compares has one to work on.
THEOREM DiskTyped == Spec => []TypeOK
<1>1. DiskInv /\ RangeInv => TypeOK
  BY DEF DiskInv, RangeInv, Shape, OutputInv, BuilderInv, BuilderTyped, TypedRecord, TypeOK
<1> QED
  BY <1>1, DiskAlways, RangeInit, RangeStep, PTL DEF Spec

-----------------------------------------------------------------------------
(***************************************************************************)
(* The builds implement DiskStore.                                         *)
(***************************************************************************)

OriginMap == [o \in Outputs |-> IF Readable(o) THEN rec[o].disk ELSE None]
ShippedMap == IF archive # None /\ Audited(archive) THEN archive["disk"] ELSE None

\* Who packages works on an output that is packaged, and the record it has
\* copied is still the one beside the disk.
PackInv ==
  \A b \in Builders :
    /\ pc[b] \in Copying \cup {"check"} => out[b] \in Pristine
    /\ pc[b] \in Copied => stage[b]["rec"] = rec[out[b]]

\* No step replaces the record of a disk that is being packaged.
LEMMA RecordKept ==
  ASSUME DiskInv, [Next]_vars, NEW b \in Builders, pc[b] \in Copying
  PROVE  rec'[out[b]] = rec[out[b]]
<1>1. /\ Shape /\ pc[b] # "idle" /\ out[b] \in Outputs /\ rec[out[b]] # None
      /\ \A c \in Builders : pc[c] = "manifest" => out[c] \in Outputs /\ rec[out[c]] = None
  BY DEF DiskInv, BuilderInv, Copying
<1>2. ASSUME NEW c \in Builders, WriteManifest(c) \/ Stop(c) PROVE rec'[out[b]] = rec[out[b]]
  <2>1. rec' = rec \/ (pc[c] = "manifest" /\ \E r : rec' = [rec EXCEPT ![out[c]] = r])
    BY <1>2 DEF WriteManifest, Stop
  <2> QED BY <1>1, <2>1 DEF Shape
<1>3. ASSUME NEW o \in Outputs, MoveAside(o) PROVE rec'[out[b]] = rec[out[b]]
  BY <1>1, <1>3 DEF MoveAside, Shape
<1>4. ASSUME NEW c \in Builders, Build(c), ~WriteManifest(c) PROVE rec' = rec
  BY <1>4 DEF Build, Reuse, RefuseModified, RefuseInputs, Prepare, OpenLog, Provision, Assemble, Link, store
<1>5. ASSUME NEW c \in Builders, Package(c) \/ \E o \in Outputs : Start(c, o) PROVE rec' = rec
  BY <1>5 DEF Package, Check, CopyDisk, CopyRecord, CopyLog, CopyBoot, Copy, Pack, Start, store
<1>6. CASE (\E r \in 1..MaxRev : Edit(r)) \/ RebuildBoot \/ UNCHANGED vars \/ \E o \in Outputs : UseDisk(o)
  BY <1>6 DEF Edit, RebuildBoot, UseDisk, vars, store
<1> QED BY <1>2, <1>3, <1>4, <1>5, <1>6 DEF Next

LEMMA PackStep == DiskInv /\ PackInv /\ [Next]_vars => PackInv'
<1> SUFFICES ASSUME DiskInv, PackInv, [Next]_vars, NEW b \in Builders
             PROVE  /\ pc'[b] \in Copying \cup {"check"} => out'[b] \in Pristine
                    /\ pc'[b] \in Copied => stage'[b]["rec"] = rec'[out'[b]]
  BY DEF PackInv
<1> DEFINE Goal == /\ pc'[b] \in Copying \cup {"check"} => out'[b] \in Pristine
                   /\ pc'[b] \in Copied => stage'[b]["rec"] = rec'[out'[b]]
<1>1. /\ Shape /\ (pc[b] \in Copying => rec'[out[b]] = rec[out[b]]) /\ Copied \subseteq Copying
      /\ pc[b] \in Copying \cup {"check"} => out[b] \in Pristine
      /\ pc[b] \in Copied => stage[b]["rec"] = rec[out[b]]
  BY RecordKept DEF DiskInv, PackInv, Copied, Copying
<1>2. CASE pc'[b] = pc[b] /\ out'[b] = out[b] /\ stage'[b] = stage[b]
  BY <1>1, <1>2
<1>3. CASE pc'[b] \notin Copying \cup {"check"}
  BY <1>1, <1>3
<1>4. ASSUME NEW c \in Builders,
             Build(c) \/ Package(c) \/ Stop(c) \/ \E o \in Outputs : Start(c, o)
      PROVE  Goal
  <2>1. CASE Stop(c) \/ \E o \in Outputs : Start(c, o)
    <3>1. c # b => pc'[b] = pc[b] /\ out'[b] = out[b] /\ stage'[b] = stage[b]
      BY <1>1, <2>1 DEF Stop, Exit, Start, Goto, Shape
    <3>2. c = b => pc'[b] \in {"idle", "decide"}
      BY <1>1, <2>1 DEF Stop, Exit, Start, Goto, Shape
    <3> QED BY <1>2, <1>3, <3>1, <3>2 DEF Copying
  <2>2. CASE Reuse(c) \/ WriteManifest(c)
    <3>1. c # b => pc'[b] = pc[b] /\ out'[b] = out[b] /\ stage'[b] = stage[b]
      BY <1>1, <2>2 DEF Reuse, WriteManifest, Built, Exit, Shape, locals
    <3>2. c = b => pc'[b] = "idle" \/ (pc'[b] = "check" /\ out'[b] \in Pristine)
      BY <1>1, <2>2 DEF Reuse, WriteManifest, Built, Exit, Shape, locals
    <3> QED BY <1>2, <3>1, <3>2 DEF Copying, Copied
  <2>3. CASE Build(c) /\ ~Reuse(c) /\ ~WriteManifest(c)
    <3>1. c # b => pc'[b] = pc[b] /\ out'[b] = out[b] /\ stage'[b] = stage[b]
      BY <1>1, <2>3 DEF Build, RefuseModified, RefuseInputs, Prepare, OpenLog, Provision, Assemble, Link,
                        Exit, Goto, Shape, locals
    <3>2. c = b => pc'[b] \in Provisioning \cup {"idle"}
      BY <1>1, <2>3 DEF Build, RefuseModified, RefuseInputs, Prepare, OpenLog, Provision, Assemble, Link,
                        Exit, Goto, Shape, Provisioning
    <3> QED BY <1>2, <1>3, <3>1, <3>2 DEF Copying, Provisioning
  <2>4. CASE Package(c)
    <3>1. c # b => pc'[b] = pc[b] /\ out'[b] = out[b] /\ stage'[b] = stage[b]
      BY <1>1, <2>4 DEF Package, Check, CopyDisk, CopyRecord, CopyLog, CopyBoot, Copy, Pack, Exit, Goto, Shape, locals
    <3>2. c = b /\ Pack(b) => pc'[b] = "idle"
      BY <1>1 DEF Pack, Exit, Shape
    <3>3. c = b /\ (Check(b) \/ CopyDisk(b)) => pc[b] \in Copying \cup {"check"} /\ out'[b] = out[b] /\ pc'[b] \notin Copied
      BY <1>1 DEF Check, CopyDisk, Copy, Goto, Shape, locals, Copying, Copied
    <3>4. c = b /\ CopyRecord(b) => /\ pc[b] \in Copying /\ out'[b] = out[b]
                                    /\ stage'[b]["rec"] = rec[out[b]]
      <4>1. ASSUME CopyRecord(b)
            PROVE  /\ pc[b] = "copy record" /\ out' = out
                   /\ stage' = [stage EXCEPT ![b] = [@ EXCEPT !["rec"] = rec[out[b]]]]
        BY <4>1 DEF CopyRecord, Copy, Goto
      <4> QED BY <1>1, <4>1 DEF Shape, Copying, Parts
    <3>5. c = b /\ (CopyLog(b) \/ CopyBoot(b)) => /\ pc[b] \in Copied /\ out'[b] = out[b]
                                                  /\ stage'[b]["rec"] = stage[b]["rec"]
      BY <1>1 DEF CopyLog, CopyBoot, Copy, Goto, Shape, Copied, Parts
    <3>6. CASE c # b
      BY <1>2, <1>3, <3>1, <3>6
    <3>7. CASE c = b /\ Pack(b)
      BY <1>1, <1>2, <1>3, <3>2, <3>7 DEF Copying
    <3>8. CASE c = b /\ ~Pack(b)
      BY <1>1, <1>2, <1>3, <2>4, <3>3, <3>4, <3>5, <3>8 DEF Package, Copying
    <3> QED BY <3>6, <3>7, <3>8
  <2> QED BY <1>4, <2>1, <2>2, <2>3, <2>4
<1>5. CASE (\E r \in 1..MaxRev : Edit(r)) \/ RebuildBoot \/ UNCHANGED vars
           \/ \E o \in Outputs : UseDisk(o) \/ MoveAside(o)
  BY <1>2, <1>5 DEF Edit, RebuildBoot, UseDisk, MoveAside, vars, locals
<1> QED BY <1>4, <1>5 DEF Next

\* A step that changes neither disk nor record nor archive is a stutter.
Same == UNCHANGED <<disk, rec, archive>>

LEMMA Stutters == ASSUME Same PROVE UNCHANGED <<disk, OriginMap, ShippedMap>>
BY DEF Same, OriginMap, ShippedMap, Readable, Audited

LEMMA StoreOfUser ==
  ASSUME DiskInv, NEW o \in Outputs, UseDisk(o) \/ MoveAside(o)
  PROVE  Promise!Next
<1>1. Shape /\ disk[o] # None /\ archive' = archive
  BY DEF DiskInv, UseDisk, MoveAside
<1>2. ShippedMap' = ShippedMap
  BY <1>1 DEF ShippedMap, Audited
<1>3. CASE UseDisk(o)
  <2>1. rec' = rec /\ disk' = [disk EXCEPT ![o] = [serial |-> disk[o].serial, guest |-> disk[o].guest + 1]]
    BY <1>3 DEF UseDisk, Disk
  <2>2. OriginMap' = OriginMap
    BY <2>1 DEF OriginMap, Readable
  <2>3. Promise!Use(o)
    BY <1>1, <1>2, <2>1, <2>2 DEF Promise!Use, OriginMap, ShippedMap
  <2> QED BY <2>3 DEF Promise!Next
<1>4. CASE MoveAside(o)
  <2>1. disk' = [disk EXCEPT ![o] = None] /\ rec' = [rec EXCEPT ![o] = None]
    BY <1>4 DEF MoveAside
  <2>2. \A x \in Outputs : rec'[x] = IF x = o THEN None ELSE rec[x]
    BY <1>1, <2>1 DEF Shape
  <2>3. OriginMap' = [OriginMap EXCEPT ![o] = None]
    BY <2>2 DEF OriginMap, Readable
  <2>4. Promise!Retire(o)
    BY <1>1, <1>2, <2>1, <2>3 DEF Promise!Retire, OriginMap, ShippedMap
  <2> QED BY <2>4 DEF Promise!Next
<1> QED BY <1>3, <1>4

\* Linking a disk provides it, and writing its record certifies it.
LEMMA StoreOfBuild ==
  ASSUME DiskInv, RangeInv, NEW b \in Builders, Build(b)
  PROVE  Promise!Next \/ UNCHANGED <<disk, OriginMap, ShippedMap>>
<1>1. Shape /\ BuilderInv(b) /\ BuilderTyped(b)
  BY DEF DiskInv, RangeInv
<1>2. archive' = archive
  BY DEF Build, Reuse, RefuseModified, RefuseInputs, Prepare, OpenLog, Provision, Assemble, Link, WriteManifest, store
<1>3. ShippedMap' = ShippedMap
  BY <1>2 DEF ShippedMap, Audited
<1>4. CASE Link(b)
  <2>1. /\ pc[b] = "link" /\ disk[out[b]] = None /\ disk' = [disk EXCEPT ![out[b]] = work[b]] /\ rec' = rec
    BY <1>4 DEF Link, Goto
  <2>2. PICK g \in 1..MaxDisks : work[b] = Disk(g, 0)
    BY <1>1, <2>1 DEF BuilderTyped, Provisioning
  <2>3. out[b] \in Outputs /\ OriginMap' = OriginMap
    BY <1>1, <2>1 DEF BuilderInv, OriginMap, Readable
  <2>4. Promise!Provide(out[b], g)
    BY <1>3, <2>1, <2>2, <2>3 DEF Promise!Provide, Promise!Provisioned, Disk, OriginMap, ShippedMap
  <2> QED BY <2>3, <2>4 DEF Promise!Next
<1>5. CASE WriteManifest(b)
  <2>0. PICK o \in Outputs : o = out[b] /\ pc[b] = "manifest"
    BY <1>1, <1>5 DEF WriteManifest, BuilderInv
  <2>1. /\ pc[b] = "manifest" /\ rec' = [rec EXCEPT ![o] = record[b]] /\ disk' = disk
    BY <1>5, <2>0 DEF WriteManifest
  <2>2. /\ o \in Outputs /\ disk[o] # None /\ rec[o] = None /\ record[b].disk = work[b]
        /\ disk[o].serial = work[b].serial
    BY <1>1, <2>0 DEF BuilderInv
  <2>3. record[b].disk = [serial |-> disk[o].serial, guest |-> 0]
    <3>1. PICK g \in 1..MaxDisks : work[b] = [serial |-> g, guest |-> 0]
      BY <1>1, <2>1 DEF BuilderTyped, Provisioning, Disk
    <3> QED BY <2>2, <3>1
  <2>4. \A x \in Outputs : rec'[x] = IF x = o THEN record[b] ELSE rec[x]
    BY <1>1, <2>1, <2>2 DEF Shape
  <2>5. OriginMap[o] = None
    BY <2>2 DEF OriginMap, Readable
  <2>6. CASE record[b] \in {None, Torn}
    <3>1. \A x \in Outputs : OriginMap'[x] = OriginMap[x]
      BY <2>2, <2>4, <2>6 DEF OriginMap, Readable
    <3>2. OriginMap' = OriginMap
      BY <3>1 DEF OriginMap
    <3> QED BY <1>3, <2>1, <3>2
  <2>7. CASE record[b] \notin {None, Torn}
    <3>1. OriginMap' = [OriginMap EXCEPT ![o] = [serial |-> disk[o].serial, guest |-> 0]]
      BY <2>3, <2>4, <2>7 DEF OriginMap, Readable
    <3>2. Promise!Certify(o)
      BY <1>3, <2>1, <2>2, <2>5, <3>1 DEF Promise!Certify, Promise!Provisioned, OriginMap, ShippedMap
    <3> QED BY <3>2 DEF Promise!Next
  <2> QED BY <2>6, <2>7
<1>6. CASE ~Link(b) /\ ~WriteManifest(b)
  <2>1. disk' = disk /\ rec' = rec
    BY <1>6 DEF Build, Reuse, RefuseModified, RefuseInputs, Prepare, OpenLog, Provision, Assemble, store
  <2> QED BY <1>2, <2>1, Stutters DEF Same
<1> QED BY <1>4, <1>5, <1>6

\* What is packed is what its own record says, if the audit accepts it.
LEMMA StoreOfPackage ==
  ASSUME DiskInv, PackInv, NEW b \in Builders, Package(b)
  PROVE  Promise!Next \/ UNCHANGED <<disk, OriginMap, ShippedMap>>
<1>1. Shape /\ BuilderInv(b) /\ disk' = disk /\ rec' = rec
  BY DEF DiskInv, Package, Check, CopyDisk, CopyRecord, CopyLog, CopyBoot, Copy, Pack, store
<1>2. CASE Pack(b)
  <2> DEFINE o == out[b]
  <2>1. pc[b] = "pack" /\ archive' = stage[b]
    BY <1>2 DEF Pack
  <2>2. /\ o \in Outputs /\ o \in Pristine /\ rec[o] \notin {None, Torn} /\ stage[b]["rec"] = rec[o] /\ disk[o] # None
    BY <1>1, <2>1 DEF BuilderInv, PackInv, Copying, Copied, DiskInv, OutputInv
  <2>3. OriginMap' = OriginMap /\ OriginMap[o] = rec[o].disk
    BY <1>1, <2>2 DEF OriginMap, Readable
  <2>4. CASE ShippedMap' = None
    <3>1. Promise!Withdraw
      BY <1>1, <2>3, <2>4 DEF Promise!Withdraw, OriginMap, ShippedMap
    <3> QED BY <3>1 DEF Promise!Next
  <2>5. CASE ShippedMap' # None
    <3>1. ShippedMap' = stage[b]["disk"] /\ stage[b]["rec"].disk = stage[b]["disk"]
      BY <2>1, <2>5 DEF ShippedMap, Audited
    <3>2. OriginMap[o] # None /\ ShippedMap' = OriginMap[o]
      BY <2>2, <2>3, <2>5, <3>1
    <3>3. Promise!Ship(o)
      BY <1>1, <2>2, <2>3, <3>2 DEF Promise!Ship, OriginMap, ShippedMap
    <3> QED BY <2>2, <3>3 DEF Promise!Next
  <2> QED BY <2>4, <2>5
<1>3. CASE ~Pack(b)
  <2>1. archive' = archive
    BY <1>3 DEF Package, Check, CopyDisk, CopyRecord, CopyLog, CopyBoot, Copy, store
  <2> QED BY <1>1, <2>1, Stutters DEF Same
<1> QED BY <1>2, <1>3

\* A record that is cut short was none before.
LEMMA StoreOfStop ==
  ASSUME DiskInv, NEW b \in Builders, Stop(b)
  PROVE  UNCHANGED <<disk, OriginMap, ShippedMap>>
<1>1. /\ Shape /\ UNCHANGED <<disk, archive>>
      /\ rec' = rec \/ (pc[b] = "manifest" /\ rec' = [rec EXCEPT ![out[b]] = Torn])
  BY DEF DiskInv, Stop
<1>2. pc[b] = "manifest" => out[b] \in Outputs /\ rec[out[b]] = None
  BY DEF DiskInv, BuilderInv
<1>3. ShippedMap' = ShippedMap
  BY <1>1 DEF ShippedMap, Audited
<1>4. \A x \in Outputs : OriginMap'[x] = OriginMap[x]
  BY <1>1, <1>2 DEF OriginMap, Readable, Shape
<1>5. OriginMap' = OriginMap
  BY <1>4 DEF OriginMap
<1> QED BY <1>1, <1>3, <1>5

\* For any number of builders and outputs, races and kills included, the builds
\* implement DiskStore: an output is provided when it is free, certified once as
\* it was provisioned, and shipped as it is certified (scripts/build-distro.py,
\* scripts/package-distro.py).
THEOREM DisksImplementStore == Spec => ImplementsDiskStore
<1>1. Init => PackInv
  BY DEF Init, PackInv, Copying, Copied
<1>2. Init => Promise!Init
  <2> SUFFICES ASSUME Init PROVE Promise!Init
    OBVIOUS
  <2>1. archive = None /\ \A o \in Outputs : ~Readable(o)
    BY DEF Init, Readable
  <2> QED BY <2>1 DEF Init, Promise!Init
<1>3. ASSUME DiskInv, RangeInv, PackInv, [Next]_vars
      PROVE  Promise!Next \/ UNCHANGED <<disk, OriginMap, ShippedMap>>
  <2>1. CASE (\E r \in 1..MaxRev : Edit(r)) \/ RebuildBoot \/ UNCHANGED vars
             \/ \E b \in Builders, o \in Outputs : Start(b, o)
    <3>1. Same
      BY <2>1 DEF Edit, RebuildBoot, Start, vars, store, Same
    <3> QED BY <3>1, Stutters
  <2> QED BY <1>3, <2>1, StoreOfUser, StoreOfBuild, StoreOfPackage, StoreOfStop DEF Next
<1>4. DiskInv /\ RangeInv /\ PackInv /\ [Next]_vars => [Promise!Next]_<<disk, OriginMap, ShippedMap>>
  BY <1>3
<1> QED
  BY <1>1, <1>2, <1>4, DiskInit, DiskStep, RangeInit, RangeStep, PackStep, PTL
     DEF Spec, ImplementsDiskStore, Promise!Spec, OriginMap, ShippedMap
=============================================================================
