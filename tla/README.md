# Verification of linux-build

linux-build turns a preset (`configs/*.toml`) into a bootable RISC-V system: a kernel, OpenSBI firmware, a root
file system (a tiny shell, a Buildroot initramfs, or an Alpine or Debian disk), and a tested, publishable release
matrix of them. Its correctness is a matter of what is on disk: caches, stamps, records and archives that several
invocations of `make` read and write, that outlive kills, and that later steps trust. This directory holds TLA+ models
of that machinery, the TLC runs that check them on small instances and TLAPS proofs for every instance.

`PROJECT.json` is the index: components, runs, the source lines each definition stands for, findings, hazards and
theorems. Paths below are relative to the repository.

## 1. The system

| Component | State it keeps | Operations | Model |
|---|---|---|---|
| Buildroot rootfs cache (`scripts/ensure-rootfs.py`, `scripts/buildroot.mk`) | `dist/.rootfs-cache/<identity>`, the lock, the Buildroot output tree, its source stamp, output, md5 stamp and manifest at the root | `ensure-rootfs.py`; `make update_buildroot`, `make_initramfs_buildroot` without the lock; clean | `RootfsCache`, `RootfsStore` |
| Release pipeline (`build-release.py`, `package-artifacts.py`, `package-distro.py`, `test-packages.py`, `check-release.py`, `Makefile`) | `dist/<name>`, `<name>.tar.gz`, `test-results.json`, `SHA256SUMS`, `release-notes.md`, `release-ready.json`, the GitHub release | `package_all` (with `RELEASE_RESUME=1`), `package`, `test_all`, `release_ready`, `github_release` | `Release` |
| Distribution disks (`build-distro.py`, `distro.mk`, `package-distro.py`, `distro_runtime.py`) | `rootfs.ext4`, `rootfs.json`, `rootfs.build.log` of the development and the release disk, kernel and firmware | `build_distro`, `package_distro`, booting a disk, moving it aside, the audit | `DistroDisk` |
| Kernel and firmware build (`Makefile`, `prepare-opensbi.py`) | the kernel output and its version stamp, `.config`, the initramfs archive, `Image`, OpenSBI's objects and payload, their stamps | `build`, `build_linux`, `make_initramfs_tiny_shell`, `install_initramfs`, `build_opensbi_with_kernel` | `Firmware` |
| Configuration (`gen-config.py`, `configs/`, `Makefile`) | six `.config.*` files | `make configure`, `make clean_config`, what `make build` parses and applies of them | `Configuration`, `Preparation` |
| Kernel sources (`prepare-linux.py`) | the versioned source root, partial and complete archives | `make linux`, in every make that needs a kernel | `KernelSource`, `Preparation` |
| Guest harness (`test-packages.py` `Guest`, `distro_runtime.py`, `test-distro.py`) | the output read so far, the command it is at, deadlines; QEMU's console and disk | boot, wait, send, reboot, ssh, close; the boots of a package and of a disk | `GuestConsole` |
| Tiny shell (`payload/*.c`) | its descriptors, the files and processes of the guest | read a line and run a command: `fetch`, `cp`, `cat`, `touch`, `rm`, `run`, `ping`, `nc`, and small ones | `TinyShell`, partly; a revision in `Firmware` |
| Overlays, manual boots, tooling, documents | - | - | not modelled |

How they interact. Every make reads the files `make configure` left, and prepares the kernel sources it needs. A packager runs `make configure`, the kernel and firmware goals, and then either `ensure-rootfs.py`,
whose output and manifest at the root it accepts when they agree, or `build-distro.py`. What it archives records the
digests of its build inputs. `test_all` extracts and boots the archives, several at a time. The gate
(`check-release.py`) compares archives, results and sources, and runs a second time before `gh` uploads the directory.
All this goes through files: there are no messages and no daemons. The tiny shell is different: it is what the firmware
boots into, PID 1 of the guest, and talks to a console, to TCP peers and to the programs it starts.

What is hard about it:

* *Concurrency.* One file lock serialises `ensure-rootfs.py`; nothing else is locked. Low-level goals work in the tree
  of the cache, two makes may build one disk, packages may be rebuilt while they are tested, sources may be edited
  while the gate reads them.
* *Kills and failures.* Every script can stop between two writes. What is on disk then is what the next run trusts:
  a stamp of a half-cleaned tree, a directory without its archive, a disk without its record.
* *Checks that are stale when they are used.* A configuration that is hashed and read again by make, a manifest beside
  an output that was replaced, a digest taken before a file is copied, a list of inputs that a new file is not in.
* *Buildroot's and OpenSBI's make* skip what they believe is built. Whether they are right depends on the stamps that
  linux-build keeps beside them.
* *A configuration in six files*, none of which is replaced atomically, read by a make and again by the makes it starts.
* *Names and files.* Makes share the partial archive and the archive of a kernel: a rename moves a file that another
  has open, and the archive is opened by its name twice, to be hashed and to be extracted.
* *A console without structure.* The harness knows that a command is through from a prompt or a word in the output, which
  comes in pieces, with the echo of what it typed and with messages of the kernel in between.
* *Partial reads and writes, late messages, other processes* in the tiny shell. It is never restarted, so what one
  command leaves open or waits for stays.

What makes each component correct:

* Cache: a certified rootfs is exactly the one its identity requests; the root of the checkout never holds a manifest
  that matches another rootfs; one invocation at a time; every invocation ends; none is
  refused because of what earlier ones left in the cache.
* Release: what is published is the whole matrix, each archive was booted itself, and of each of its inputs
  the record names a content that its build can have read; a resumed build reuses current archives only.
* Disks: a disk in place is never replaced; a record is of the disk beside it; an audited archive has the disk as it
  was provisioned.
* Firmware: a build that succeeds leaves the firmware of its own preset, kernel and shell.
* Configuration: a build is of one preset as a whole, the one that was configured last.
* Kernel sources: a tree under the name of a version is the archive kernel.org published, and no kill leaves an archive
  that later makes must refuse.
* Guest harness: it believes no command that did not run and no restart that did not happen, and comes to an end with
  QEMU gone.
* Tiny shell: a command that reports success has done all of it, one that fails leaves nothing half-done that the next
  would take for whole, and each comes back to the prompt with every descriptor closed.

## 2. Modules

| Module | Contents |
|---|---|
| `RootfsStore` | abstract specification of the cache: an immutable store by identity, and a rootfs at the root that is an entry of the store or absent |
| `RootfsCache` | the cache in detail, and the refinement mapping to `RootfsStore` |
| `RootfsCacheProofs` | type correctness, mutual exclusion, soundness of cache, record and stamp, immutable entries, delivery, refinement of `RootfsStore` |
| `Release`, `ReleaseProofs` | the pipeline; types, tested archives, what is published, what a resumed build skips |
| `DiskStore` | abstract specification of the disks: an output is provided when it is free, certified once, and shipped as it is certified |
| `DistroDisk`, `DistroDiskProofs` | the disks in detail and the refinement mapping to `DiskStore`; types, disk, record and archive are what they should be, refinement |
| `Firmware`, `FirmwareProofs` | the kernel and firmware of one output directory; a build that succeeds leaves those of its preset |
| `TinyShell`, `TinyShellProofs` | the init program and what runs beside it; descriptors, and what `cp`, `fetch`, `ping`, `run` and `nc` have done at the prompt |
| `KernelSource`, `KernelSourceProofs` | the kernel sources; a tree is the verified archive's content |
| `Configuration` | what `gen-config.py` derives from a preset, as operators |
| `Preparation`, `PreparationProofs` | composes the two with the goals `configure`, `clean_config` and `build`; a build is of one preset; it implements `KernelSource` |
| `GuestConsole`, `GuestConsoleProofs` | the harness, the console and the guest; what a boot that passed has done |
| `MCRootfsCache`, `MCRelease`, `MCDistroDisk`, `MCFirmware`, `MCTinyShell`, `MCPreparation`, `MCGuestConsole` | constants of the runs |

Operators commented `Mutant:` are plausible bugs. None is part of a specification; each shows that one property
depends on the definition that follows it.

### RootfsCache

An ensurer is an invocation of `ensure-rootfs.py`, a maker a developer's low-level make. `pc` is the place in the
script: `lookup` is lines 47-62, `clean` and `clean objects` the two halves of Buildroot's clean, `stamp` lines 96-99,
`make` to `md5` the recipe of `make_initramfs_buildroot`, `verify` to `record` lines 101-126, `restore...` lines 57-60.
A digest is modelled by what it is the digest of. A rootfs is the set of packages in it, each with the options it was
built with, and its overlay files, so a package that a configuration no longer has shows. Buildroot skips a package
with an install stamp (`stamped`) whatever the options are, which is what makes the choice between extending and
cleaning (`SameConfig`) matter. `PartOf` says which entries of a configuration are sub-options of a package: they come
into the rootfs (`Parts`) when that package is built and not otherwise. `copytree` creates the entry and fills it file by file in any order.

### Release

Three goals, `package`, `test` and `gate`, each with a location and locals. A source file is its content, a number, 0 when
it is absent, and an edit may take another one back, so that digests are equal again. An archive is what its build can
have read of each input (`made`: the content at the compile and every one since, until the inputs are hashed), what its manifest
records (`inputs`) and a serial number; the serial stands for the creation time in the manifest, through which no two
archives have one digest. `gedited`, and the field `edited` of what is announced and published, are ghosts: the files edited
while a gate made its checks. `rows` are the tests in progress:
hash, extract, boot and hash again (`test_one`), interleaved by the pool. `StartGate` to `Upload` are the assertions
and writes of `check-release.py` in their order, with and without `--write`, followed by `gh`.

### DistroDisk

A builder is a make of one output, which for the release disk goes on to package it. A disk is the guest that
provisioned it and the number of writes since. `Link` is `os.link`, which fails when the disk has appeared, and
`WriteManifest` the write of the record after it, which can be cut short. The log is beside the output and shared by
the builders of it. In the mapping to `DiskStore` a record that can be read certifies its disk, and an archive that the audit would
refuse is none.

### Firmware

`todo` holds the recipe lines make has yet to run. The tree remembers for which kernel versions its objects were
compiled, OpenSBI's objects for which ISAs, the payload which Image and DTB offset it was linked with. OpenSBI's make
is external: it compiles what is missing and links when the payload is missing or older than what it is made of, and
does not notice flags. `Half` is what a step has done when it is killed.

### TinyShell

`at` is where the shell is; a step is one system call, or calls between which nothing else can matter. Every call may
fail where the code looks at the failure, and reads and writes may be partial. Data are counted in pieces: a file is
what it is a copy of and how many pieces of it are there, a buffer the pieces of one read (`Pieces`). `said` is what
the command has printed, as far as properties ask. Beside the shell run the operator (`Type`), the other end of a
connection (`PeerSends`, `PeerEnds`), the programs that `run` starts, which fork and end and whose children the
shell adopts, and the network (`Arrive`, `Lose`). `Report`, `WaitidStatus` and `KernelStatus` are the two encodings of
a status.

Numbers are sequences of digits, and `ParseUnsigned` is the loop of the code on `Wrap` = 2^w. The run scales the width
and 65535 down together (`Wrap` = 128, `MaxPort` = 9); what matters of them is `NumberAssumption`, that a product past
`Wrap` comes from a value that is already no port, which holds for 32 and 64 bits. `Decimal`, the number that is written, is
the reference.

Assumptions about the kernel: a write of something returns at least one byte or fails, `unlink` of the file that
`fetch` has just created and `wait4` of the shell's own child do not fail, and one answer comes at most for an ICMP request. The
console is typed at only where it is read or where the order matters (the prompt and the relay); elsewhere a line that is typed waits,
which is the same as typing it later.

### KernelSource, Configuration and Preparation

In `KernelSource` a make is at a place of `prepare-linux.py`: `look` is lines 21-24, `archive` 32-33, `download` and
`transfer` the curl of 34-36, `hash` 38-43, `tar` 44-50. `partial` and `archive` map a version to the file its name
stands for, `data` maps a file to its pieces: good, bad, or a hole that another writer's truncation has left. The
mirror serves a good or a bad archive, and the checksum that the script fetches is taken for kernel.org's.

In `Configuration` a preset is a record of what its TOML file states: a field that is absent is a key the file leaves
out. A file is a function from variables or symbols to values, and `f ++ g` is `f` where it states something and `g`
elsewhere, so that a later line that wins is on the left: the defaults of the Makefile are on the right of everything,
the architecture's own symbols on the right of the preset's `[kernel.config]`. (A comment, `gen-config.py:47`, calls the
architecture's symbols not user-configurable; `[kernel.config]` comes after them in the fragment and can replace them. No
preset of the repository does.)

`Preparation` has one make per place in `Makes`, with a job: `configure` and `clean_config` go through `Outputs` file by
file (`Empty`, `Write`, `Unlink`) and can be cut short before any step; a build parses the variables (`Build`), starts a
make that parses them again (`BuildAgain`), and applies the shared fragment, that of its variant and the Buildroot
configuration. Both of its makes run `prepare-linux.py`. `wanted` and `asked` are ghosts: what a build would take by the
goal that completed last, and that value when a build began, dropped when a goal begins to write. A world says whether
makes run in turn or overlap, whether the mirror is honest, and which presets and how many cuts there are.

Left out: values that reach a shell or Buildroot without quotes, two goals that write the configuration at the same time,
and the timeout and SSH port of `.config.mk`, which only manual boots read.

### GuestConsole

A suite is the list of boots of a package, each with what the harness waits for first and the kinds of its commands. The
kind of a command is how the harness knows that it is through: `ByPrompt` by the prompt at the end of what came after the
command was sent, `newline` by a prompt at the end of all output, `marker` by a line of the command and the prompt, `event` by such lines
alone, `Status` by a line with its exit status; `unawaited` is a line that is sent and not waited for (the export of the proxy,
`distro_runtime.py:144-146`), behind which the next command is sent at once; `ssh` and `reboot` are the other two. Output is a sequence of tokens: the
echo of command k, its result, a prompt (which does not say whose it is), messages of the kernel. `tty` is what the guest
has still to print, `pipe` what was printed and not read, `raw` what was read in this boot; `offset` is where the
output of the command begins. A read takes what has come, and as the guest prints token by token, output comes in
pieces of any size. `Proceed` to `Close` are the harness, `Start` to `QemuEnds` the guest and QEMU: up, hung, halted by a
restart (QEMU runs with `-no-reboot`) or dead. `cache` and `disk` are what the guest wrote and what is on the disk. What
the commands of the tests find is a free outcome, except for what a disk is asked to have kept.

Two things the model shows and no property asks for: a kernel message behind a prompt hides it from a wait, which then
runs into its deadline; and `distro_runtime.py:75` catches every error of a read, so that a failure marker in the
last output before QEMU's clean end is dropped.

## 3. Runs

| Run | Question | Bounds |
|---|---|---|
| `rootfs_safe` | With builds and configuration serialised: are certified rootfs, record, stamp and delivery right across config changes, a BusyBox update, failures and kills, does nothing ever refuse, and is `RootfsStore` implemented? | two configs of which one extends the other, two baselines, one ensurer, kills everywhere but in `clean objects` and `fill` |
| `rootfs_live` | With nothing serialised: does the lock exclude, is every waiter served, do certified entries stay? | two ensurers, a maker, one config with a sub-option, two revisions, kills inside `copytree` |
| `rootfs_half_published` | Finding: a kill inside `copytree` makes later runs fail | one ensurer, kill in `fill` |
| `release_serial` | Is what is published complete, tested, and of each input a content that its build can have read? | two presets, one with contents of two kernel versions; it and a script that builds and tests read edited, or an edit taken back, twice at any moment; three archives; builds that fail, kills between directory and archive and between the files of the gate |
| `release_overlap` | Do rows and resumed builds stay right when packages are rebuilt during the tests? | one preset, a script edited once at any moment, two archives, all goals at once, kills everywhere but between directory and archive |
| `release_half_replaced` | Finding: a kill between directory and archive, then resume | one preset, three archives |
| `disk_preserved` | Are disks, records and archives right with two makes, guests, rebuilds and moves, and is `DiskStore` implemented? | two builders (symmetric), two outputs, three guests provisioned, two kernels, two revisions |
| `firmware_current` | Does every build that succeeds leave the firmware of its preset? | three presets (another version and ISA; another offset), two payload revisions, three goals run alone, kills before OpenSBI compiles |
| `firmware_switched_back` | Finding: a build stopped in OpenSBI, then the preset of before | kills in the compile |
| `shell_commands` | Do the commands of the tiny shell tell the truth, close what they open and come back, whatever fails, ends early or comes late? | two paths, bodies of 1 and 3 pieces, reads of at most 2, three processes, two ICMP requests under way, one line typed ahead |
| `preparation_whole` | Is a build of one preset as a whole and from verified sources, whatever was configured, refused, cut short or removed before, and whatever the mirror serves? Do the sources change as in `KernelSource`? | four presets (both widths, with and without Buildroot, a disk, one that is refused), two versions, archives of two pieces, four files; in turn with one cut in a row and any mirror, or two makes at once, one preset and an honest mirror |
| `console_truthful` | Does the harness believe only what the guest did, and come to an end? | the boots of a tiny shell, a Buildroot and a disk package with a command of every kind, two unasked messages in a boot |

Every action is taken in some passing run; of the cases of `Fail` in `Firmware`, `HalfCompiled` is taken only in
`firmware_switched_back`. Why the bounds are enough: the errors these protocols can make need one
writer and one reader of a file, or one process and its restart, and a value and another one it can be mistaken for.
So two configs (one extending the other, or with other options), two revisions and two concurrent processes show a
stale or mixed value; a third archive or disk is there so that one can be replaced twice. The properties that are
proved hold without the bounds. Where a run restricts kills or interleavings (`CrashPoints`, `Serialized`, `OneGoal`,
`PartOf`), the excluded case is either what the documents tell users not to do (another configuration or build during
`package_all`, README.md:264; configuration and builds at once, docs/buildroot.md:45) or one that a violation run or a
hazard's note names. No run restricts when sources are edited. The kills that `release_serial` leaves out are in
`release_overlap`; the theorems about what is published have all of them. Deadlock is checked
in all runs, and no module needs it switched off.

Bounds that cap counters: `MaxRev` (contents of a file, or revisions), `MaxEdits` (edits), `MaxBuilds` (archives), `MaxBoot`, `MaxDisks`, `MaxGuest`
(kernel builds, guests provisioned, writes to a disk), `MaxTyped` (lines typed ahead), `MaxPending` (ICMP requests under
way), `cuts` of a world (goals cut short in a row), `Pieces` (of an archive), `MaxNoise` (messages of one boot that nobody
asked for). Two edits are one that is taken back; that the same file is edited in both gates, which the properties about
what is published except, takes a third and is left to the proofs. Two pieces are enough for an archive that is part one download and part another, or that has a hole; one goal cut
short leaves files of two presets, which the next one that completes must replace without a trace. The commands of `shell_commands` are in four sessions (files and `fetch`; `run`; `ping`; `nc`), because commands
of different sessions share nothing but the console and the descriptors, which every command leaves closed. The port 136 is there to wrap to a
port, 150 to wrap unnoticed; a body of 3 pieces takes two reads, and two children beside the program are enough for one
to be adopted and end first.

### What the violation runs show

1. `rootfs_half_published` - `shutil.copytree` publishes in place (`ensure-rootfs.py:124`). A kill inside it leaves an
   entry for which every later invocation raises `FileExistsError` after a full build, or an integrity failure.
2. `release_half_replaced` - directory and archive are replaced one after the other (`package-artifacts.py:212`);
   after a kill in between, a resumed build keeps the old archive. The gate still refuses it.
3. `firmware_switched_back` - OpenSBI's stamp names the last build that ended (`prepare-opensbi.py:44`). After a
   stopped build of other inputs, a build of the inputs in the stamp invalidates nothing and succeeds with objects of
   another ISA, or with another DTB offset.

Limits that the models show, and that no run is kept for:

* An added `BR2_PACKAGE_*` counts as a package that is enabled (`ensure-rootfs.py:88`), also when it is an option of one that is
  built; Buildroot does not build that again, and the rootfs that is certified lacks it. No preset of the repository has
  such an option. `rootfs_safe` is about configurations without (`NoSuboptions`).
* Inputs are hashed when everything is built (`package-artifacts.py:173`). What was edited since its compile is recorded as it
  is then, and the gate, which compares records, accepts the archive. This is why `PublishedCoherent` speaks of what a build
  can have read.
* Resume and gate (`check-release.py:54`) look at the files an archive lists; one that is added to `payload/` or the
  overlay goes unnoticed.
* The gate hashes sources again and again, for each archive and once more for the record, and only the equality of two
  gates' records ties these readings together. A file that is edited behind the comparisons of the first gate, taken back, and
  edited the same way behind those of the second is recorded with a content that no archive was made from. The properties
  about what is published except files edited during the checks of both gates, and no others.
* After a kill between link and manifest (`build-distro.py:257`) later builds refuse the disk for different inputs though
  nothing changed.

### Fairness

`rootfs_live`, `shell_commands` and `console_truthful` have a liveness property. In `RootfsCache`, `FairSpec` assumes weak fairness of the steps of a running script and of
its make: the operating system runs them. It assumes strong fairness of `Acquire`: the kernel queues waiters on `flock`, so
one that waits while the lock is released again and again gets it. Nothing is assumed of developers or of new
invocations. `Served` says that an invocation that waits ends, in success or not; it depends on `Exit`
releasing the lock however a process ends, which is what `flock` gives.

In `TinyShell`, `FairSpec` assumes that the shell runs once what it waits for is there, that a peer ends its connection
some time, and that programs end. The last two are assumptions on the environment that `PromptReturns` cannot do
without: `fetch`, `nc` and `run` have no timeouts. Nothing is assumed of the operator, nor that anybody connects to
`nc -l`: `PromptReturns` lets a listener wait. It says that no end, once there, is missed.

In `GuestConsole`, `FairSpec` assumes weak fairness of the harness, a process that runs, and strong fairness of
`Timeout`: a wait looks at its deadline at each head of its loop, and once that has passed it does not go round again.
Nothing is assumed of the guest or of QEMU, which may hang in any state. `Verdict` says that the test is over some time
and QEMU gone.

## 4. Proofs

All theorems are checked by TLAPS for every value of the constants that satisfies the named assumptions
(`DataAssumption`, `PartAssumption`, `ProcAssumption`, `ContentAssumption`, `SettingsAssumption`, `SourceAssumption` of `Release` and of `KernelSource`, `OutputAssumption`,
`BoundAssumption`, `NoneAssumption`, `NumberAssumption`, `DigitAssumption`, `CommandAssumption`, `PresetAssumption`,
`EndAssumption`, `SuiteAssumption`: the data have the shapes the scripts give them, and `None` and `Torn` are not values; and
`OrderAssumption` of `GuestConsole`, below).

* `TypeCorrect`, `LockExcludes`: `Spec => []TypeOK` and `Spec => []Exclusive` for any number of ensurers and makers,
  any crash points and no discipline at all. The invariant is that a process past the lock is the one `lock` names.
* `CacheCorrect`, `RecordCorrect`, `StampCorrect`: under `Discipline` (builds and configuration serialised, no
  low-level build, no kill between the halves of a clean, no overlay file removed between baselines, no
  sub-options of packages). `CacheSound`
  is not inductive. `SoundInv` adds what the tree holds with respect to the stamp (`TreeInv`), what each half-filled
  entry and the manifest at the root may hold (`CacheInv`), and what the holder of the lock may rely on at each location
  (`HolderInv`): that it looks at its own identity, that a restored entry is certified, that the tree is inside the
  stamped config before make, that output, digest and staged copy are the expected rootfs after it. None of the five conditions
  can be dropped: TLC finds `CacheSound` violated in an instance that meets the other four. The notes of the hazards
  name what goes wrong without each; no run is kept for them.
* `EntriesImmutable`: `Spec => CertifiedStays`, again with no discipline. Three operations write the cache
  (`CacheWriters`), and what they write was not certified: `EntryInv` says that an entry without a directory has no
  manifest, and that one being filled lacks the image and the manifest as long as they are still to be copied.
* `DeliveryCorrect`, `CacheImplementsStore`: under `Discipline`, `Spec => Delivered` and `Spec => ImplementsStore`.
  `StoreInv` is `SoundInv`, `EntryInv` and `ProvideInv`: the manifest at the root is of a certified entry, a restored output is
  the expected one, and the entry is certified by the time the manifest is written. A step that certifies a new entry
  is a copy of `copytree` and maps to `Publish`; any other maps to `Provide` of the entry the manifest at
  the root then names, or to `Withdraw` when the two files at the root do not match.
* `RefusedNever`: under `Discipline` with no kill while `copytree` fills an entry, `Spec => []NeverRefused`; `rootfs_half_published`
  shows that the second condition is needed. `WholeInv`: an entry that is there is legacy, or certified, or being filled by
  the holder of the lock, and who builds an entry has found its place free.
* `TestsCorrect`: `Spec => []TestedIsWhatRan` with any overlap of goals, edits and kills. `TestInv` rests on serial
  numbers only growing: an archive that was replaced does not come back, so when the digest after the boot is the one
  before, what was extracted in between is the same archive.
* `ReleaseTyped`: `Spec => []TypeOK` with no condition. `ResumeCorrect`: `Spec => ResumeSound` when nothing is killed between `Move` and
  `Replace`, which `release_half_replaced` shows is needed; `ResumeInv` says that outside that step directory and archive are
  of one build.
* `CompletePublished`, `TestedPublished`: under `OneGoal`, with edits, also such as take others back, and kills at any
  moment. While a gate makes its checks, what it has found holds of the sources as they are, those edited since it started
  excepted (`CheckInv`), and so its record is `Sound` up to these. `PublishInv` says this of the record on disk
  (`ReadyInv`), of what the gate holds at each of its steps (`GateInv`), and of its own record when `gh` may start
  (`SealInv`), when the two are equal: a file that was not edited in both gates is then what one of them found (`SoundTwice`).
* `CoherentPublished`: under `OneGoal` alone. `MadeInv`: the content that a manifest records of an input is among those that the
  build can have read. That it is the only one is not true (section 3).
* `RecordCorrect`, `DiskPreserved`, `ArchiveCorrect`, `DiskTyped` of `DistroDiskProofs`, for any number of builders and outputs.
  `DiskInv` says that a readable record was made before any guest was booted on its disk and is of that disk; that
  between link and manifest there is a disk and no record, and at most one builder of the output; and that a record,
  once compared, stays readable until the archive is packed. `DiskTyped`: `Spec => []TypeOK`; with `RangeInv`, what a builder holds
  at each location, from which records are made.
* `DisksImplementStore`: `Spec => ImplementsDiskStore`. `Link` maps to `Provide` and `WriteManifest` to `Certify`; `Pack` maps to
  `Ship` of the certified disk, whatever guests have done to the output since it was copied, or to `Withdraw` when the audit would
  refuse the archive. `PackInv` says that the record copied into the archive is still the one beside the disk (`RecordKept`: no
  other step can touch it) and that only outputs of `Pristine` come so far.
* What a record says, `RecordTruthful` of `RootfsCache` and `RecordOfDisk` of `DistroDisk`, is an invariant of the abstract
  specifications; no run lists it beside `ImplementsStore` and `ImplementsDiskStore`, and `RecordCorrect` proves it in both modules.
* `OutputsTyped`, `TreeCorrect`, `FirmwareCorrect`, `ShellCurrent` of `FirmwareProofs`: for any presets, goals run alone and
  revisions, `Spec => []TypeOK`; `[]TreeOfVersion` when `install_initramfs`, which compiles a kernel and stamps nothing,
  is not run on its own; `FirmwareCurrent` and `BuildCurrent` when nothing stops between OpenSBI's make and the `mv` of
  the stamp (`CrashPoints` without `compile`, `link`, `commit`), which `firmware_switched_back` shows is needed. What is
  true of the outputs depends on the goal and on how many of its steps are left (`TodoInv`, `Within`). `Stamped` says
  that the stamp, if there is one, names the version of all the objects, and which goal may count on its being the one that is
  set; `Identified` that OpenSBI's outputs are of the inputs in its stamp until its make has run, and of those that are
  set after it; `Built` what `make build` has made by each of its steps.
* `PromptClosesAll`: `Spec => []DescriptorsClosed` of `TinyShell`. `OpenInv` gives for each place of the shell which
  descriptors may be open there.
* `CopyComplete`: `Spec => []CopiedOrFailed`, from `FilesInv`: that the destination holds what has been read so far less what is in
  the buffer, that the source is as it was, and that a copy ends without a message only when all of it is there.
* `SmallIsRead`, `PortIsRead`: what `ParseUnsigned` computes of a numeral of any length, on any width. `Parsed` and `Decimal` are recursive
  functions over the prefixes of the text. That they are defined (`DecimalDefined`, `ParsedDefined`) and agree (`ParsedIsDecimal`) is an
  induction over the digits, which is carried out as the choice of a least counterexample: `WellFoundedInduction` gives a
  set of naturals its least element (`LeastOf`), and the step from the prefix before it is arithmetic (`AlongSteps`). Every prefix of a numeral
  below 2^w is below it. Of a port another argument is needed, as the test for overflow is incomplete: what the accumulator holds
  never falls (`LastIsMost`), so no prefix was above 65535, and from such a value ten times it and a digit cannot wrap.
* `PortAsTyped`: `Spec => []DialsWhatWasTyped`, from `PortIsRead` and `PortInv`, which relates a connection to the port that
  was read of the command.
* `FetchComplete`: `Spec => []FetchAllOrNothing`. `FetchInv`: until the local file is opened nothing has changed, then it holds of the
  body what has been counted, and the length expected is the one the peer gave, which `SmallIsRead` says is the one that is
  written. What a peer sends is bounded by its size (`PeerInv`).
* `ShellTyped`: `Spec => []TypeOK` of `TinyShell`, in three parts (`SaidInv`, `StoreInv`, `WaitInv`): what is printed is a notice the
  code has, what is on disk and in the buffer is counted in pieces, and who waits for a child has one.
* `RepliesCounted`: `Spec => []CountsReplies`. `Counted` says that the replies in the queue do not bring the count above what
  has come: there is a bound for each prefix of the queue, which grows with a message and loses its first element with a receive.
* `OwnProgramReported`: `Spec => []ReportsOwnProgram`. `RunInv`: nobody takes the child's place until the shell has waited for it, and
  `StatusTells`: either encoding of a status tells an exit from a signal and gives its number, for any of 0..255 and 1..127.
* `RelayReadsAll`: `Spec => RelayDrains`, as only `RelayToConsole` leaves the relay from there.
* `SourceTyped`, `SourceCorrect`: `SourceSpec => []SourceVerified` for any number of makes, versions, files and pieces.
  There are two reasons and an invariant for each. `HonestInv`: from an honest mirror nothing but good pieces and holes
  comes into any file, and tar takes nothing with holes. `SerialInv`: in turn one make is under way, so that the file it writes is a
  partial one, no archive changes, and what tar reads is what was hashed. `OneName` (no file has two names) is part of both.
* `PreparationImplementsSources`: `Spec => ImplementsSources` of `Preparation`, a refinement in which the two modules share
  the sources: every step of a goal is a step of `KernelSource` or leaves them. What has to be shown is that each make asks for a
  version that there is, whatever a goal that was cut short has left of `.config.mk` (`ConfInv`). `SourcesCorrect` follows from it and `SourceCorrect`.
* `BuildCorrect`: `Spec => []OnePreset` for any presets and
  any goals cut short, if in every world makes run in turn or the mirror is honest. `WriterInv`: a goal
  that writes stands alone, and the files before the next one are its preset's. `ConfInv`: `wanted`, if there is one, is
  what a build takes from the files as they are. `BuildInv`: what an undisturbed build has taken at each of its stages is what
  the files still say.
* `PreparationTyped`: `Spec => []TypeOK` of `Preparation`, from `JobInv` (what a make is at agrees with its goal) and `CutInv` (the
  configuration is complete unless a goal writes it or was cut short), which need that at most one goal writes (`WriterInv`).
* `CommandsRan`, `RebootActual`: `Spec => []PassedRan` and `[]ActualReboot` for any suites under `OrderAssumption`: the
  commands up to one that is ended by a bare prompt have all had their own prompts awaited, and a disk is asked for what it kept in a
  boot that ends with a restart. The scripts keep both, and without the first the claim is false: a prompt
  does not say whose it is. `WordInv` says that results and restarts that were printed are true, `OrderInv` that
  before a command is sent nothing is on its way that could be taken for its end, and that
  after it one prompt at most comes, behind the result; `KeptInv` relates what a disk answers to what is on it.

Model-checked only: `Served`, `PromptReturns` and `Verdict`, liveness properties under fairness, which the prover does not
handle. Every safety property of the runs that pass has a theorem.

## 5. Not modelled

* What compilers, Buildroot, OpenSBI, QEMU, `gh` and the file systems do inside a step. Compiles, audits and boots
  succeed or fail freely.
* The layout and file checks of the packagers, tag and title of a release, generated text.
* Loss of power: files that were written stay written. A kill of a process is modelled, a lost page cache is not.
* The cache of the other XLEN, which shares only `dist/.rootfs-cache`; kernels of the Buildroot and disk variants,
  which have directories of their own; `build_opensbi` on its own; `install_initramfs` on its own, which is a goal
  of `Alone` that the runs do not take.
* A low-level Buildroot build of another configuration followed by a package build certifies a package that was removed
  (`ensure-rootfs.py:67`). docs/buildroot.md:28 says that low-level builds can retain removed packages; `rootfs_safe` and
  the proofs about the cache leave them out, `rootfs_live` has them.
* In the tiny shell: the commands of one system call and a print (`pwd`, `cd`, `ls`, `mkdir`, `rmdir`, `mount`, `sync`,
  `uname`, `uptime`, `free`, `sleep`, `ifconfig`, `clear`, `reboot`, `poweroff`), splitting a line into words, addresses,
  checksums, the syntax of HTTP headers. A fetch whose server gives no length, or one of 2^w and more, and `cp` of a
  file onto itself are modelled, and left out of `FetchAllOrNothing` and `CopiedOrFailed`: nothing reports them.
* What the tests of a package ask of its commands, and the measured times and deadlines of the harness: both are free.
* Two `make configure` at once, and makes at once with a mirror that errs: the scripts do nothing about either
  (`prepare-linux.py:34`, see the hazards).
* Overlays, manual boots, tooling and documents: they have no state in the repository (section 1, last row).

## 6. Plan

The order followed how much depends on a component; all that keep state are modelled.

1. `RootfsStore`, `RootfsCache`; 2. `Release`; 3. `DiskStore`, `DistroDisk`; 4. `Firmware`; 5. `TinyShell`; 6. `KernelSource`;
7. `Configuration`, `Preparation`; 8. `GuestConsole`.

What would come next: `Preparation` in place of the one step `Configure` of `Firmware`, so that a configuration that
was cut short meets the stamps of the kernel output; `GuestConsole` in place of the free outcome of a boot in `Release`.

Proofs to come: an abstract specification of a release, which `Release` implements under `OneGoal`.
