---------------------------- MODULE RootfsCache ----------------------------
(***************************************************************************)
(* The Buildroot rootfs cache of one XLEN: scripts/ensure-rootfs.py, the   *)
(* make targets of scripts/buildroot.mk it runs, and the Buildroot output  *)
(* tree they act on.                                                       *)
(*                                                                         *)
(* Ensurers are invocations of ensure-rootfs.py, which serialise on a file *)
(* lock.  Makers are developers who run the low-level incremental targets  *)
(* (`make update_buildroot`, `make build`) without that lock.  A process   *)
(* that ends may be started again, and may be killed, or leave through a   *)
(* raised error, at any location of CrashPoints.                           *)
(*                                                                         *)
(* A config is what .config.buildroot requests: packages, and the options  *)
(* that change how every package is built.  A baseline is the rest of the  *)
(* cache identity: the overlay files, the BusyBox version the Buildroot    *)
(* source pins, and a revision for all that has no influence on what is    *)
(* installed here.  A digest is modelled by the blob itself.               *)
(***************************************************************************)
CONSTANTS
  Packages, Options, OverlayFiles, BusyBoxVersions,
  PartOf,       \* the package that an option BR2_PACKAGE_* belongs to: itself, or
                \* for a sub-option the package that is built with it
  Revisions,    \* of what else the identity covers: source, defconfig, fragment
  Configs,      \* the configs a developer switches between
  Baselines,    \* the states of the checkout a developer switches between
  Ensurers, Makers,
  CrashPoints,  \* locations at which a process may stop
  Serialized,   \* configuration and low-level builds never run during a build
  None,         \* an absent file, an absent value
  Torn          \* the content of a file whose copy was interrupted

ASSUME DataAssumption ==
  /\ Configs \subseteq [pkgs : SUBSET Packages, opt : Options]
  /\ Baselines \subseteq [files : SUBSET OverlayFiles, bb : BusyBoxVersions, rev : Revisions]

ASSUME PartAssumption ==
  /\ PartOf \in [Packages -> Packages]
  /\ \A c \in Configs : \A g \in c.pkgs : PartOf[g] \in c.pkgs

ASSUME ProcAssumption == Ensurers \cap Makers = {} /\ None \notin Ensurers \cup Configs

VARIABLES
  cfgfile,  \* content of .config.buildroot
  base,     \* baseline of the checkout
  lock,     \* holder of dist/.rootfs-rv<bits>.lock
  cache,    \* dist/.rootfs-cache, by identity
  oldreq,   \* configs of requested.config files outside the live entries
  stamp,    \* config named by buildroot<bits>/.raptor-rootfs-config
  legacy,   \* config named by initramfs<bits>-buildroot.stamp
  output,   \* initramfs<bits>-buildroot.cpio.gz
  outman,   \* initramfs<bits>-buildroot.manifest.json
  target,   \* output/target: packages, each with the options it was built with
  overlay,  \* output/target: overlay files
  stamped,  \* output/build: packages with an install stamp, and the sub-options
            \* they were built with
  bbdirs,   \* output/build: versions of the busybox-* directories
  built,    \* output/images/rootfs.cpio.gz
  pc,       \* location of each process
  ident,    \* its local variables: the identity it looks up,
  conf,     \* the config its make was configured from,
  digest,   \* the digest of the output it has taken,
  staged,   \* the rootfs in its staging directory,
  left      \* and the files copytree has still to copy

tree == <<target, overlay, stamped, bbdirs, built>>
env == <<cfgfile, base>>
locals == <<ident, conf, digest, staged, left>>
vars == <<env, lock, cache, oldreq, stamp, legacy, output, outman, tree, pc, locals>>

Procs == Ensurers \cup Makers
Ids == [cfg : Configs, base : Baselines]
Image == [pkgs : SUBSET (Packages \X Options), files : SUBSET OverlayFiles]
Blob == Image \cup {Torn}

ASSUME ContentAssumption == None \notin Image

EntryFiles == {"image", "requested", "manifest"}
Entry == [dir : BOOLEAN, req : BOOLEAN, legacy : BOOLEAN,
          img : Blob \cup {None}, sha : Blob \cup {None}]
NoEntry == [dir |-> FALSE, req |-> FALSE, legacy |-> FALSE, img |-> None, sha |-> None]
EmptyDir == [dir |-> TRUE, req |-> FALSE, legacy |-> FALSE, img |-> None, sha |-> None]

\* How a process ends: success, killed or failed, and the three errors raised.
Ended == {"done", "stopped", "integrity", "busybox", "exists"}
Resting == {"idle"} \cup Ended
Running == {"lock", "lookup", "restore", "restore stamp", "restore record",
            "clean", "clean objects", "stamp", "make", "install", "copy", "md5",
            "verify", "stage", "publish", "fill", "record"}

Want(c) == c.pkgs \X {c.opt}
Expected(i) == [pkgs |-> Want(i.cfg), files |-> i.base.files]

\* What the lookup accepts as a hit: a manifest of the current schema whose
\* digest is that of the cached image.
Certified(i) == ~cache[i].legacy /\ cache[i].sha # None /\ cache[i].img = cache[i].sha

Requested == oldreq \cup {i.cfg : i \in {j \in Ids : cache[j].req}}

\* Mutant: removing a package counts as extending.
ExtendsByRemoval(old, new) == old.opt = new.opt

\* Nothing but options BR2_PACKAGE_* is added, which is taken to mean packages
\* that Buildroot can add to the tree in place.
Extends(old, new) == old.opt = new.opt /\ old.pkgs \subseteq new.pkgs

\* Mutant: without a source stamp the tree is taken to be of the same config.
SameUnlessStamped(c) == stamp = None \/ stamp = c \/ (stamp \in Requested /\ Extends(stamp, c))

SameConfig(c) ==
  IF stamp # None
  THEN stamp = c \/ (stamp \in Requested /\ Extends(stamp, c))
  ELSE output # None /\ built # None /\ legacy = c /\ output = built

\* Nothing runs: what docs/buildroot.md asks of whoever configures a preset.
Quiet == \A p \in Procs : pc[p] \in Resting

-----------------------------------------------------------------------------
\* A fresh clone, or a checkout last built by a version of the script that wrote
\* neither the source stamp nor BusyBox fields in its manifests.
Init ==
  /\ cfgfile \in Configs /\ base \in Baselines
  /\ lock = None /\ oldreq = {} /\ stamp = None /\ outman = None
  /\ \E c \in Configs \cup {None} :
       LET i == [cfg |-> c, base |-> base] IN
       /\ legacy = c
       /\ stamped = IF c = None THEN {} ELSE c.pkgs
       /\ target = IF c = None THEN {} ELSE Want(c)
       /\ overlay = IF c = None THEN {} ELSE base.files
       /\ bbdirs = IF c = None THEN {} ELSE {base.bb}
       /\ built = IF c = None THEN None ELSE Expected(i)
       /\ output = built
       /\ cache = [j \in Ids |->
            IF c # None /\ j = i
            THEN [dir |-> TRUE, req |-> TRUE, legacy |-> TRUE, img |-> built, sha |-> built]
            ELSE NoEntry]
  /\ pc = [p \in Procs |-> "idle"]
  /\ ident = [p \in Procs |-> None] /\ conf = [p \in Procs |-> None]
  /\ digest = [p \in Procs |-> None] /\ staged = [p \in Procs |-> None]
  /\ left = [p \in Procs |-> {}]

Goto(p, from, to) == pc[p] = from /\ pc' = [pc EXCEPT ![p] = to]

\* Mutant: a lock file removed on success only, instead of flock.
ExitKeepingLock(p, outcome) ==
  /\ pc' = [pc EXCEPT ![p] = outcome]
  /\ lock' = IF lock = p /\ outcome = "done" THEN None ELSE lock
  /\ ident' = [ident EXCEPT ![p] = None] /\ conf' = [conf EXCEPT ![p] = None]
  /\ digest' = [digest EXCEPT ![p] = None] /\ staged' = [staged EXCEPT ![p] = None]
  /\ left' = [left EXCEPT ![p] = {}]

\* The process ends: the kernel drops its lock, its locals are gone.
Exit(p, outcome) ==
  /\ pc' = [pc EXCEPT ![p] = outcome]
  /\ lock' = IF lock = p THEN None ELSE lock
  /\ ident' = [ident EXCEPT ![p] = None] /\ conf' = [conf EXCEPT ![p] = None]
  /\ digest' = [digest EXCEPT ![p] = None] /\ staged' = [staged EXCEPT ![p] = None]
  /\ left' = [left EXCEPT ![p] = {}]

-----------------------------------------------------------------------------
\* The developer runs `make configure`, or edits the overlay or the source.
Configure(c) ==
  /\ Serialized => Quiet
  /\ cfgfile' = c
  /\ UNCHANGED <<base, lock, cache, oldreq, stamp, legacy, output, outman, tree, pc, locals>>

EditBaseline(b) ==
  /\ Serialized => Quiet
  /\ base' = b
  /\ UNCHANGED <<cfgfile, lock, cache, oldreq, stamp, legacy, output, outman, tree, pc, locals>>

\* A developer starts a low-level incremental build.
StartMake(p) ==
  /\ pc[p] \in Resting
  /\ Serialized => Quiet
  /\ pc' = [pc EXCEPT ![p] = "make"]
  /\ UNCHANGED <<env, lock, cache, oldreq, stamp, legacy, output, outman, tree, locals>>

\* ensure-rootfs.py starts and blocks on the lock ...
Open(p) ==
  /\ pc[p] \in Resting
  /\ Serialized => \A q \in Makers : pc[q] \in Resting
  /\ pc' = [pc EXCEPT ![p] = "lock"]
  /\ UNCHANGED <<env, lock, cache, oldreq, stamp, legacy, output, outman, tree, locals>>

\* Mutant: the lock is not waited for.
AcquireAnyway(p) ==
  /\ Goto(p, "lock", "lookup")
  /\ lock' = p
  /\ ident' = [ident EXCEPT ![p] = [cfg |-> cfgfile, base |-> base]]
  /\ UNCHANGED <<env, cache, oldreq, stamp, legacy, output, outman, tree,
                 conf, digest, staged, left>>

\* ... and, once it has it, computes the identity it will look up.
Acquire(p) ==
  /\ Goto(p, "lock", "lookup")
  /\ lock = None
  /\ lock' = p
  /\ ident' = [ident EXCEPT ![p] = [cfg |-> cfgfile, base |-> base]]
  /\ UNCHANGED <<env, cache, oldreq, stamp, legacy, output, outman, tree,
                 conf, digest, staged, left>>

-----------------------------------------------------------------------------
\* Mutant: an entry of the current schema is renamed too.
SupersedeAny(p) ==
  LET i == ident[p] IN
  /\ pc[p] = "lookup" /\ cache[i].sha # None
  /\ cache' = [cache EXCEPT ![i] = NoEntry]
  /\ oldreq' = IF cache[i].req THEN oldreq \cup {i.cfg} ELSE oldreq
  /\ UNCHANGED <<env, lock, stamp, legacy, output, outman, tree, pc, locals>>

\* An entry without BusyBox fields is renamed; its requested.config stays readable.
Supersede(p) ==
  LET i == ident[p] IN
  /\ pc[p] = "lookup" /\ cache[i].legacy
  /\ cache' = [cache EXCEPT ![i] = NoEntry]
  /\ oldreq' = IF cache[i].req THEN oldreq \cup {i.cfg} ELSE oldreq
  /\ UNCHANGED <<env, lock, stamp, legacy, output, outman, tree, pc, locals>>

Hit(p) ==
  /\ Goto(p, "lookup", "restore")
  /\ Certified(ident[p])
  /\ UNCHANGED <<env, lock, cache, oldreq, stamp, legacy, output, outman, tree, locals>>

RejectEntry(p) ==
  LET e == cache[ident[p]] IN
  /\ pc[p] = "lookup"
  /\ ~e.legacy /\ e.sha # None /\ e.img # e.sha
  /\ Exit(p, "integrity")
  /\ UNCHANGED <<env, cache, oldreq, stamp, legacy, output, outman, tree>>

\* Mutant: a hit leaves an existing output in place.
RestoreMissingImage(p) ==
  /\ Goto(p, "restore", "restore stamp")
  /\ output' = IF output = None THEN cache[ident[p]].img ELSE output
  /\ UNCHANGED <<env, lock, cache, oldreq, stamp, legacy, outman, tree, locals>>

RestoreImage(p) ==
  /\ Goto(p, "restore", "restore stamp")
  /\ output' = cache[ident[p]].img
  /\ UNCHANGED <<env, lock, cache, oldreq, stamp, legacy, outman, tree, locals>>

RestoreStamp(p) ==
  /\ Goto(p, "restore stamp", "restore record")
  /\ legacy' = ident[p].cfg
  /\ UNCHANGED <<env, lock, cache, oldreq, stamp, output, outman, tree, locals>>

RestoreRecord(p) ==
  LET i == ident[p] IN
  /\ pc[p] = "restore record"
  /\ outman' = [id |-> i, sha |-> cache[i].sha]
  /\ Exit(p, "done")
  /\ UNCHANGED <<env, cache, oldreq, stamp, legacy, output, tree>>

-----------------------------------------------------------------------------
\* Mutant: the stamp is written before the clean.
DecideStamping(p) ==
  /\ Goto(p, "lookup", IF SameConfig(ident[p].cfg) THEN "stamp" ELSE "clean")
  /\ cache[ident[p]].sha = None
  /\ stamp' = ident[p].cfg
  /\ UNCHANGED <<env, lock, cache, oldreq, legacy, output, outman, tree, locals>>

\* Mutant: a certified entry is built again.
DecideAlways(p) ==
  /\ Goto(p, "lookup", IF SameConfig(ident[p].cfg) THEN "stamp" ELSE "clean")
  /\ UNCHANGED <<env, lock, cache, oldreq, stamp, legacy, output, outman, tree, locals>>

\* No manifest: extend the tree in place, or clean it first.
Decide(p) ==
  /\ Goto(p, "lookup", IF SameConfig(ident[p].cfg) THEN "stamp" ELSE "clean")
  /\ cache[ident[p]].sha = None
  /\ UNCHANGED <<env, lock, cache, oldreq, stamp, legacy, output, outman, tree, locals>>

\* Buildroot's `clean` removes output/target and the images before output/build.
CleanTarget(p) ==
  /\ Goto(p, "clean", "clean objects")
  /\ target' = {} /\ overlay' = {} /\ built' = None
  /\ UNCHANGED <<env, lock, cache, oldreq, stamp, legacy, output, outman, stamped, bbdirs, locals>>

\* Mutant: the clean keeps the install stamps.
CleanTargetOnly(p) ==
  /\ Goto(p, "clean objects", "stamp")
  /\ bbdirs' = {}
  /\ UNCHANGED <<env, lock, cache, oldreq, stamp, legacy, output, outman, target, overlay,
                 stamped, built, locals>>

CleanObjects(p) ==
  /\ Goto(p, "clean objects", "stamp")
  /\ stamped' = {} /\ bbdirs' = {}
  /\ UNCHANGED <<env, lock, cache, oldreq, stamp, legacy, output, outman, target, overlay,
                 built, locals>>

\* Mutant: the stamp names the whole identity.
WriteIdentityStamp(p) ==
  /\ Goto(p, "stamp", "make")
  /\ stamp' = ident[p]
  /\ UNCHANGED <<env, lock, cache, oldreq, legacy, output, outman, tree, locals>>

WriteStamp(p) ==
  /\ Goto(p, "stamp", "make")
  /\ stamp' = ident[p].cfg
  /\ UNCHANGED <<env, lock, cache, oldreq, legacy, output, outman, tree, locals>>

-----------------------------------------------------------------------------
\* make_initramfs_buildroot: .config from the config file as it is now, then
\* busybox-reconfigure for the version the source pins.
MakeConfig(p) ==
  /\ Goto(p, "make", "install")
  /\ conf' = [conf EXCEPT ![p] = cfgfile]
  /\ bbdirs' = bbdirs \cup {base.bb}
  /\ UNCHANGED <<env, lock, cache, oldreq, stamp, legacy, output, outman, target, overlay,
                 stamped, built,
                 ident, digest, staged, left>>

\* What the config says about package g.
Parts(c, g) == {h \in c.pkgs : PartOf[h] = g}

\* Buildroot builds a package that has no install stamp, with its sub-options,
\* and skips the others, whatever their sub-options are.
Install(p, g) ==
  /\ pc[p] = "install" /\ PartOf[g] = g
  /\ g \in conf[p].pkgs \ stamped
  /\ target' = target \cup (Parts(conf[p], g) \X {conf[p].opt})
  /\ stamped' = stamped \cup Parts(conf[p], g)
  /\ UNCHANGED <<env, lock, cache, oldreq, stamp, legacy, output, outman, overlay, bbdirs,
                 built, pc, locals>>

\* The overlay is copied over the target directory, which becomes the image.
MakeImage(p) ==
  /\ Goto(p, "install", "copy")
  /\ \A g \in conf[p].pkgs : PartOf[g] \in stamped
  /\ overlay' = overlay \cup base.files
  /\ built' = [pkgs |-> target, files |-> overlay']
  /\ UNCHANGED <<env, lock, cache, oldreq, stamp, legacy, output, outman, target, stamped,
                 bbdirs, locals>>

CopyImage(p) ==
  /\ Goto(p, "copy", "md5")
  /\ built # None
  /\ output' = built
  /\ UNCHANGED <<env, lock, cache, oldreq, stamp, legacy, outman, tree, locals>>

\* Another process has cleaned the images: cp fails, and make with it.
CopyFails(p) ==
  /\ pc[p] = "copy" /\ built = None
  /\ Exit(p, "stopped")
  /\ UNCHANGED <<env, cache, oldreq, stamp, legacy, output, outman, tree>>

\* The md5 stamp is of the config file as it is now; a low-level build ends here.
WriteLegacy(p) ==
  /\ pc[p] = "md5"
  /\ legacy' = cfgfile
  /\ \/ p \in Makers /\ Exit(p, "done")
     \/ p \in Ensurers /\ Goto(p, "md5", "verify") /\ UNCHANGED <<lock, locals>>
  /\ UNCHANGED <<env, cache, oldreq, stamp, output, outman, tree>>

-----------------------------------------------------------------------------
OneBusyBox == \E v \in BusyBoxVersions : bbdirs = {v}

\* One configured BusyBox build; its digest and the output's go in the record.
Verify(p) ==
  /\ Goto(p, "verify", "stage")
  /\ OneBusyBox
  /\ digest' = [digest EXCEPT ![p] = output]
  /\ UNCHANGED <<env, lock, cache, oldreq, stamp, legacy, output, outman, tree,
                 ident, conf, staged, left>>

RejectBusyBox(p) ==
  /\ pc[p] = "verify" /\ ~OneBusyBox
  /\ Exit(p, "busybox")
  /\ UNCHANGED <<env, cache, oldreq, stamp, legacy, output, outman, tree>>

Stage(p) ==
  /\ Goto(p, "stage", "publish")
  /\ staged' = [staged EXCEPT ![p] = output]
  /\ UNCHANGED <<env, lock, cache, oldreq, stamp, legacy, output, outman, tree,
                 ident, conf, digest, left>>

\* copytree creates the entry's directory, and raises if there is one ...
Publish(p) ==
  /\ Goto(p, "publish", "fill")
  /\ ~cache[ident[p]].dir
  /\ cache' = [cache EXCEPT ![ident[p]] = EmptyDir]
  /\ left' = [left EXCEPT ![p] = EntryFiles]
  /\ UNCHANGED <<env, lock, oldreq, stamp, legacy, output, outman, tree,
                 ident, conf, digest, staged>>

RejectPublish(p) ==
  /\ pc[p] = "publish" /\ cache[ident[p]].dir
  /\ Exit(p, "exists")
  /\ UNCHANGED <<env, cache, oldreq, stamp, legacy, output, outman, tree>>

\* The entry once file f of the staging directory is copied into it.
Filled(e, f, img, sha) ==
  [dir |-> TRUE, legacy |-> FALSE, req |-> e.req \/ f = "requested",
   img |-> IF f = "image" THEN img ELSE e.img, sha |-> IF f = "manifest" THEN sha ELSE e.sha]

\* ... then copies the staged files in directory order, which is any order.
CopyEntry(p, f) ==
  LET i == ident[p] IN
  /\ pc[p] = "fill" /\ f \in left[p]
  /\ cache' = [cache EXCEPT ![i] = Filled(cache[i], f, staged[p], digest[p])]
  /\ left' = [left EXCEPT ![p] = left[p] \ {f}]
  /\ pc' = [pc EXCEPT ![p] = IF left[p] = {f} THEN "record" ELSE "fill"]
  /\ UNCHANGED <<env, lock, oldreq, stamp, legacy, output, outman, tree,
                 ident, conf, digest, staged>>

WriteRecord(p) ==
  LET i == ident[p] IN
  /\ pc[p] = "record"
  /\ outman' = [id |-> i, sha |-> cache[i].sha]
  /\ Exit(p, "done")
  /\ UNCHANGED <<env, cache, oldreq, stamp, legacy, output, tree>>

\* The process is killed or a command it runs fails.  A copy to the output may
\* be left torn; a killed process leaves its staging directory behind.
Crash(p) ==
  /\ pc[p] \in CrashPoints \cap Running
  /\ Exit(p, "stopped")
  /\ output' \in IF pc[p] \in {"restore", "copy"} THEN {output, Torn} ELSE {output}
  /\ oldreq' \in IF pc[p] \in {"publish", "fill"}
                 THEN {oldreq, oldreq \cup {ident[p].cfg}} ELSE {oldreq}
  /\ UNCHANGED <<env, cache, stamp, legacy, outman, tree>>

-----------------------------------------------------------------------------
Make(p) ==
  \/ MakeConfig(p) \/ (\E g \in Packages : Install(p, g))
  \/ MakeImage(p) \/ CopyImage(p) \/ CopyFails(p) \/ WriteLegacy(p)

Ensure(p) ==
  \/ Supersede(p) \/ Hit(p) \/ RejectEntry(p)
  \/ RestoreImage(p) \/ RestoreStamp(p) \/ RestoreRecord(p)
  \/ Decide(p) \/ CleanTarget(p) \/ CleanObjects(p) \/ WriteStamp(p)
  \/ Verify(p) \/ RejectBusyBox(p) \/ Stage(p) \/ Publish(p) \/ RejectPublish(p)
  \/ (\E f \in EntryFiles : CopyEntry(p, f)) \/ WriteRecord(p)

Next ==
  \/ \E c \in Configs : Configure(c)
  \/ \E b \in Baselines : EditBaseline(b)
  \/ \E p \in Makers : StartMake(p)
  \/ \E p \in Ensurers : Open(p) \/ Acquire(p) \/ Ensure(p)
  \/ \E p \in Procs : Make(p) \/ Crash(p)

Spec == Init /\ [][Next]_vars

\* A running process keeps running; the kernel hands the lock to a waiter again
\* and again, so a waiter is not overtaken for ever.
FairSpec ==
  /\ Spec
  /\ \A p \in Ensurers : SF_vars(Acquire(p)) /\ WF_vars(Ensure(p))
  /\ \A p \in Procs : WF_vars(Make(p))

-----------------------------------------------------------------------------
TypeOK ==
  /\ cfgfile \in Configs /\ base \in Baselines
  /\ lock \in Ensurers \cup {None}
  /\ cache \in [Ids -> Entry]
  /\ oldreq \subseteq Configs
  /\ stamp \in Configs \cup {None} /\ legacy \in Configs \cup {None}
  /\ output \in Blob \cup {None}
  /\ outman \in [id : Ids, sha : Blob \cup {None}] \cup {None}
  /\ target \subseteq Packages \X Options
  /\ overlay \subseteq OverlayFiles
  /\ stamped \subseteq Packages
  /\ bbdirs \subseteq BusyBoxVersions
  /\ built \in Image \cup {None}
  /\ pc \in [Procs -> Resting \cup Running]
  /\ ident \in [Procs -> Ids \cup {None}]
  /\ conf \in [Procs -> Configs \cup {None}]
  /\ digest \in [Procs -> Blob \cup {None}]
  /\ staged \in [Procs -> Blob \cup {None}]
  /\ left \in [Procs -> SUBSET EntryFiles]

Critical == Running \ {"lock"}

\* The file lock: two invocations never hold the cache and the tree together,
\* however processes start, fail and are killed.
Exclusive == \A p, q \in Ensurers : pc[p] \in Critical /\ pc[q] \in Critical => p = q

\* What the cache certifies for an identity is exactly the rootfs that identity
\* requests: no package of an earlier config is left in it, none is missing.
CacheSound == \A i \in Ids : Certified(i) => cache[i].img = Expected(i)

\* package-artifacts.py accepts the rootfs at the root when the manifest beside
\* it has its digest: then it is the rootfs of the identity the manifest names,
\* whatever incremental build or interrupted copy came between (a consequence of
\* ImplementsStore).
RecordTruthful ==
  outman # None /\ outman.sha = output => output = Expected(outman.id)

\* The source stamp can be trusted to choose between extending and cleaning the
\* tree: the tree holds nothing the stamped config does not request, and an
\* installed package was built with the stamped options.
StampTrusted ==
  stamp # None /\ (\A p \in Ensurers : pc[p] # "clean objects") =>
    target = stamped \X {stamp.opt} /\ stamped \subseteq stamp.pkgs

\* An invocation is never refused because of what an earlier one, interrupted
\* or not, left in the cache.
NeverRefused == \A p \in Procs : pc[p] \notin {"integrity", "exists"}

\* A certified entry is never removed, decertified or given another image.
CertifiedStays ==
  [][\A i \in Ids : Certified(i) => Certified(i)' /\ cache'[i].img = cache[i].img]_vars

\* When an invocation succeeds, the rootfs at the root is the one it was asked
\* for and the manifest beside it certifies it.
Delivered ==
  [][\A p \in Ensurers : pc[p] # "done" /\ pc'[p] = "done" =>
       output' = Expected(ident[p]) /\ outman' = [id |-> ident[p], sha |-> output']]_vars

\* Every invocation that waits for the lock ends, whatever the others do.
Served == \A p \in Ensurers : pc[p] = "lock" ~> pc[p] \in Resting

\* The abstract store: certified entries, and the rootfs at the root when the
\* manifest beside it has its digest.
Store == INSTANCE RootfsStore WITH
  Content <- [i \in Ids |-> Expected(i)],
  store <- [i \in Ids |-> IF Certified(i) THEN cache[i].img ELSE None],
  root <- IF outman # None /\ outman.sha = output
          THEN [id |-> outman.id, img |-> output] ELSE None

\* The cache implements the store: every step of every process publishes an
\* exact rootfs, puts a published one at the root, withdraws it, or stutters.
ImplementsStore == Store!Spec
=============================================================================
