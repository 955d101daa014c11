----------------------------- MODULE DistroDisk -----------------------------
(***************************************************************************)
(* The ext4 disks of a distribution preset: build_distro and package_distro *)
(* of scripts/distro.mk, build-distro.py, package-distro.py, and the audit *)
(* of distro_runtime.py.                                                   *)
(*                                                                         *)
(* A disk is the guest that was provisioned on it (a serial number), and   *)
(* the changes guests have made to it since; its digest is the disk.  A    *)
(* build log is the set of verdicts written to it since it was opened.     *)
(* The preset, build-distro.py and rootfs/distro are one revision, src;    *)
(* the kernel and the firmware are one build, boot.                        *)
(***************************************************************************)
EXTENDS Naturals

CONSTANTS
  Builders,   \* invocations of make
  Outputs,    \* rootfs.ext4 paths: the development disk, the release disk
  Pristine,   \* the outputs that are built with --pristine and packaged
  MaxRev, MaxBoot, MaxDisks, MaxGuest,   \* bounds
  None, Torn

ASSUME OutputAssumption == Pristine \subseteq Outputs

ASSUME BoundAssumption ==
  MaxRev \in Nat \ {0} /\ MaxBoot \in Nat \ {0} /\ MaxDisks \in Nat \ {0} /\ MaxGuest \in Nat

ASSUME NoneAssumption == None \notin [serial : Nat, guest : Nat]

VARIABLES
  src,       \* revision of the build inputs
  boot,      \* the kernel and firmware in place
  clock,     \* guests provisioned so far
  disk,      \* rootfs.ext4 of each output
  rec,       \* rootfs.json
  log,       \* rootfs.build.log
  archive,   \* the archive of the preset in dist/
  pc, out,   \* location and output of each builder
  fp,        \* its fingerprint of the inputs
  work,      \* the disk in its temporary directory
  record,    \* the record it has put together
  stage      \* what it has copied for the archive

store == <<disk, rec, log, archive>>
locals == <<out, fp, work, record, stage>>
vars == <<src, boot, clock, store, pc, locals>>

Disk(s, g) == [serial |-> s, guest |-> g]
Record(i, d, b, l) == [inputs |-> i, disk |-> d, boot |-> b, log |-> l]
Verdict(s, v) == [serial |-> s, verdict |-> v]

Parts == {"disk", "rec", "log", "boot"}
Empty == [p \in Parts |-> None]
Readable(o) == rec[o] \notin {None, Torn}

Init ==
  /\ src = 1 /\ boot = 1 /\ clock = 1
  /\ disk = [o \in Outputs |-> None] /\ rec = [o \in Outputs |-> None]
  /\ log = [o \in Outputs |-> {}]
  /\ archive = None
  /\ pc = [b \in Builders |-> "idle"]
  /\ out = [b \in Builders |-> None]
  /\ fp = [b \in Builders |-> 0]
  /\ work = [b \in Builders |-> None]
  /\ record = [b \in Builders |-> None]
  /\ stage = [b \in Builders |-> Empty]

Goto(b, from, to) == pc[b] = from /\ pc' = [pc EXCEPT ![b] = to]

\* The scripts end, and their locals with them.
Exit(b) ==
  /\ pc' = [pc EXCEPT ![b] = "idle"]
  /\ out' = [out EXCEPT ![b] = None] /\ fp' = [fp EXCEPT ![b] = 0]
  /\ work' = [work EXCEPT ![b] = None] /\ record' = [record EXCEPT ![b] = None]
  /\ stage' = [stage EXCEPT ![b] = Empty]

\* build-distro.py is done; the recipe of the release disk goes on to package it.
Built(b) ==
  IF out[b] \in Pristine THEN pc' = [pc EXCEPT ![b] = "check"] /\ UNCHANGED locals ELSE Exit(b)

-----------------------------------------------------------------------------
\* A developer edits the inputs, or takes an edit back.
Edit(r) == src' = r /\ UNCHANGED <<boot, clock, store, pc, locals>>

\* build_distro_kernel, which every build of either disk runs first, gives
\* another kernel or firmware: the outputs are shared by both disks.
RebuildBoot ==
  /\ boot < MaxBoot /\ boot' = boot + 1
  /\ UNCHANGED <<src, clock, store, pc, locals>>

\* A guest is booted on a disk and writes to it.
UseDisk(o) ==
  /\ disk[o] # None /\ disk[o].guest < MaxGuest
  /\ disk' = [disk EXCEPT ![o] = Disk(disk[o].serial, disk[o].guest + 1)]
  /\ UNCHANGED <<src, boot, clock, rec, log, archive, pc, locals>>

\* The disk and its record are moved aside, as docs/distributions.md says, and
\* not while it is being built.
MoveAside(o) ==
  /\ disk[o] # None
  /\ \A b \in Builders : pc[b] # "idle" => out[b] # o
  /\ disk' = [disk EXCEPT ![o] = None] /\ rec' = [rec EXCEPT ![o] = None]
  /\ UNCHANGED <<src, boot, clock, log, archive, pc, locals>>

-----------------------------------------------------------------------------
\* build: the fingerprint is taken before anything is looked at.
Start(b, o) ==
  /\ Goto(b, "idle", "decide")
  /\ out' = [out EXCEPT ![b] = o] /\ fp' = [fp EXCEPT ![b] = src]
  /\ UNCHANGED <<src, boot, clock, store, work, record, stage>>

Matches(b) == Readable(out[b]) /\ rec[out[b]].inputs = fp[b]

\* Mutant: a disk that is reused is certified as it is now.
ReuseAndRecord(b) ==
  /\ pc[b] = "decide" /\ Built(b)
  /\ disk[out[b]] # None /\ Matches(b)
  /\ out[b] \in Pristine => rec[out[b]].disk = disk[out[b]]
  /\ rec' = [rec EXCEPT ![out[b]].disk = disk[out[b]]]
  /\ UNCHANGED <<src, boot, clock, disk, log, archive>>

Reuse(b) ==
  /\ pc[b] = "decide" /\ Built(b)
  /\ disk[out[b]] # None /\ Matches(b)
  /\ out[b] \in Pristine => rec[out[b]].disk = disk[out[b]]
  /\ UNCHANGED <<src, boot, clock, store>>

RefuseModified(b) ==
  /\ pc[b] = "decide" /\ Exit(b)
  /\ disk[out[b]] # None /\ Matches(b)
  /\ out[b] \in Pristine /\ rec[out[b]].disk # disk[out[b]]
  /\ UNCHANGED <<src, boot, clock, store>>

\* 'already exists with different inputs', also when there is no record; one cut
\* short does not parse.
RefuseInputs(b) ==
  /\ pc[b] = "decide" /\ Exit(b)
  /\ disk[out[b]] # None /\ ~Matches(b)
  /\ UNCHANGED <<src, boot, clock, store>>

\* A work disk is made from the image, in a directory of this builder.
Prepare(b) ==
  /\ Goto(b, "decide", "open")
  /\ disk[out[b]] = None /\ clock < MaxDisks
  /\ work' = [work EXCEPT ![b] = Disk(clock, 0)] /\ clock' = clock + 1
  /\ UNCHANGED <<src, boot, store, out, fp, record, stage>>

\* log.open('wb'): the log is beside the output, whoever else writes to it.
OpenLog(b) ==
  /\ Goto(b, "open", "guest")
  /\ log' = [log EXCEPT ![out[b]] = {}]
  /\ UNCHANGED <<src, boot, clock, disk, rec, archive, locals>>

Provision(b, v) ==
  /\ Goto(b, "guest", "verdict")
  /\ log' = [log EXCEPT ![out[b]] = @ \cup {Verdict(work[b].serial, v)}]
  /\ UNCHANGED <<src, boot, clock, disk, rec, archive, locals>>

Verdicts(o) == {x.verdict : x \in log[o]}

\* Mutant: the record is written before the disk is linked.
AssembleAndRecord(b) ==
  /\ Goto(b, "verdict", "link")
  /\ "pass" \in Verdicts(out[b]) /\ "fail" \notin Verdicts(out[b])
  /\ record' = [record EXCEPT ![b] = Record(fp[b], work[b], boot, log[out[b]])]
  /\ rec' = [rec EXCEPT ![out[b]] = record'[b]]
  /\ UNCHANGED <<src, boot, clock, disk, log, archive, out, fp, work, stage>>

\* The log has the pass marker and not the other; the rest of the record is
\* read from the work disk, the log, the kernel and the firmware.
Assemble(b) ==
  /\ Goto(b, "verdict", "link")
  /\ "pass" \in Verdicts(out[b]) /\ "fail" \notin Verdicts(out[b])
  /\ record' = [record EXCEPT ![b] = Record(fp[b], work[b], boot, log[out[b]])]
  /\ UNCHANGED <<src, boot, clock, store, out, fp, work, stage>>

\* Mutant: the disk is moved over the output.
LinkOver(b) ==
  /\ Goto(b, "link", "manifest")
  /\ disk' = [disk EXCEPT ![out[b]] = work[b]]
  /\ UNCHANGED <<src, boot, clock, rec, log, archive, locals>>

\* os.link(disk, output) fails if the output has appeared meanwhile.
Link(b) ==
  /\ Goto(b, "link", "manifest")
  /\ disk[out[b]] = None
  /\ disk' = [disk EXCEPT ![out[b]] = work[b]]
  /\ UNCHANGED <<src, boot, clock, rec, log, archive, locals>>

\* Mutant: the digest is of the output instead of the disk that was built.
ManifestOfOutput(b) ==
  /\ pc[b] = "manifest" /\ Built(b)
  /\ rec' = [rec EXCEPT ![out[b]] =
               Record(fp[b], disk[out[b]], record[b].boot, record[b].log)]
  /\ UNCHANGED <<src, boot, clock, disk, log, archive>>

WriteManifest(b) ==
  /\ pc[b] = "manifest" /\ Built(b)
  /\ rec' = [rec EXCEPT ![out[b]] = record[b]]
  /\ UNCHANGED <<src, boot, clock, disk, log, archive>>

Build(b) ==
  \/ Reuse(b) \/ RefuseModified(b) \/ RefuseInputs(b) \/ Prepare(b)
  \/ OpenLog(b) \/ (\E v \in {"pass", "fail"} : Provision(b, v))
  \/ Assemble(b) \/ Link(b) \/ WriteManifest(b)

-----------------------------------------------------------------------------
\* package-distro.py compares the disk, the kernel, the firmware and the log
\* with the record, and then copies them one after the other.
Check(b) ==
  /\ Goto(b, "check", "copy disk")
  /\ Readable(out[b])
  /\ rec[out[b]].disk = disk[out[b]]
  /\ rec[out[b]].boot = boot /\ rec[out[b]].log = log[out[b]]
  /\ UNCHANGED <<src, boot, clock, store, locals>>

Copy(b, part, from, to, file) ==
  /\ Goto(b, from, to)
  /\ stage' = [stage EXCEPT ![b] = [@ EXCEPT ![part] = file[out[b]]]]
  /\ UNCHANGED <<src, boot, clock, store, out, fp, work, record>>

CopyDisk(b) == Copy(b, "disk", "copy disk", "copy record", disk)
CopyRecord(b) == Copy(b, "rec", "copy record", "copy log", rec)
CopyLog(b) == Copy(b, "log", "copy log", "copy boot", log)
CopyBoot(b) == Copy(b, "boot", "copy boot", "pack", [o \in Outputs |-> boot])

Pack(b) ==
  /\ pc[b] = "pack" /\ Exit(b)
  /\ archive' = stage[b]
  /\ UNCHANGED <<src, boot, clock, disk, rec, log>>

Package(b) ==
  Check(b) \/ CopyDisk(b) \/ CopyRecord(b) \/ CopyLog(b) \/ CopyBoot(b) \/ Pack(b)

\* A command fails, an assertion refuses, or make is killed; write_text has
\* truncated the manifest before it writes it.
Stop(b) ==
  /\ pc[b] # "idle" /\ Exit(b)
  /\ rec' \in IF pc[b] = "manifest" THEN {rec, [rec EXCEPT ![out[b]] = Torn]} ELSE {rec}
  /\ UNCHANGED <<src, boot, clock, disk, log, archive>>

Next ==
  \/ \E r \in 1..MaxRev : Edit(r)
  \/ RebuildBoot
  \/ \E o \in Outputs : UseDisk(o) \/ MoveAside(o)
  \/ \E b \in Builders : (\E o \in Outputs : Start(b, o)) \/ Build(b) \/ Package(b) \/ Stop(b)

Spec == Init /\ [][Next]_vars

-----------------------------------------------------------------------------
Disks == {Disk(s, g) : s \in 1..MaxDisks, g \in 0..MaxGuest}
Logs == SUBSET {Verdict(s, v) : s \in 1..MaxDisks, v \in {"pass", "fail"}}
Locations ==
  {"idle", "decide", "open", "guest", "verdict", "link", "manifest", "check",
   "copy disk", "copy record", "copy log", "copy boot", "pack"}

\* Disks, records and logs are well formed, a record has its disk beside it,
\* and past the link a builder's output is there.
TypeOK ==
  /\ src \in 1..MaxRev /\ boot \in 1..MaxBoot /\ clock \in 1..MaxDisks
  /\ disk \in [Outputs -> Disks \cup {None}]
  /\ \A o \in Outputs :
       /\ Readable(o) => /\ rec[o].inputs \in 1..MaxRev /\ rec[o].disk \in Disks
                         /\ rec[o].boot \in 1..MaxBoot /\ rec[o].log \in Logs
       /\ rec[o] # None => disk[o] # None
  /\ log \in [Outputs -> Logs]
  /\ pc \in [Builders -> Locations] /\ out \in [Builders -> Outputs \cup {None}]
  /\ \A b \in Builders : pc[b] \in {"manifest", "check"} => disk[out[b]] # None

\* A disk that is in place is never replaced by another: until it is moved
\* aside, it has what was provisioned on it and what guests have written.
NeverOverwritten ==
  [][\A o \in Outputs : disk[o] # None /\ disk'[o] # None =>
       disk'[o].serial = disk[o].serial /\ disk'[o].guest >= disk[o].guest]_vars

\* The record beside a disk is of that disk, whoever else builds the output
\* (a consequence of ImplementsDiskStore).
RecordOfDisk ==
  \A o \in Outputs : Readable(o) /\ disk[o] # None => rec[o].disk.serial = disk[o].serial

\* What distro_runtime.audit accepts.
Audited(a) ==
  /\ a["rec"].disk = a["disk"]
  /\ a["rec"].boot = a["boot"] /\ a["rec"].log = a["log"]

\* An archive that passes the audit holds the disk as it was provisioned: no
\* guest was booted on it before, while or after it was compared and copied, and
\* its record is readable.
AuditedIsPristine ==
  archive # None => /\ archive["rec"] \notin {None, Torn}
                    /\ Audited(archive) => archive["disk"].guest = 0

\* The abstract disks: a record that can be read certifies, and an archive that
\* the audit refuses is none.
Promise == INSTANCE DiskStore WITH
  Guests <- 1..MaxDisks,
  origin <- [o \in Outputs |-> IF Readable(o) THEN rec[o].disk ELSE None],
  shipped <- IF archive # None /\ Audited(archive) THEN archive["disk"] ELSE None

\* Races, kills and guests included, the builds do no more to the disks than
\* DiskStore has them do: each step provides, certifies, uses, retires or ships
\* one, or stutters (scripts/build-distro.py, scripts/package-distro.py).
ImplementsDiskStore == Promise!Spec
=============================================================================
