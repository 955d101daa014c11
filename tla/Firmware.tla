------------------------------ MODULE Firmware ------------------------------
(***************************************************************************)
(* The kernel and firmware of one output directory: the goals build_linux, *)
(* make_initramfs_tiny_shell, install_initramfs and                        *)
(* build_opensbi_with_kernel of the Makefile, prepare-opensbi.py, and the  *)
(* presets and source edits between which the directory is shared.         *)
(*                                                                         *)
(* OpenSBI's own make rebuilds what is missing and what is older than a     *)
(* file it is made from, and does not notice a change of flags: that is    *)
(* what prepare-opensbi.py is for.                                         *)
(***************************************************************************)
EXTENDS Naturals, Sequences

CONSTANTS
  Settings,    \* what the presets set: kernel version, ISA, offset of the DTB
  Overlapping, \* kernel versions and offsets of the DTB within their memory
  Alone,       \* goals that are run on their own, besides `make build`
  MaxRev,      \* bound on the revisions of payload/
  CrashPoints, \* steps at which make may be killed or a command may fail
  None

VARIABLES
  setting,    \* the make variables
  payload,    \* revision of payload/
  goal, todo, \* what make was asked for, and the steps it has yet to take
  tree,       \* the kernel output: versions its objects were compiled for
  version,    \* .kernel-version
  embedded,   \* .config: does it name the initramfs as CONFIG_INITRAMFS_SOURCE?
  cpio,       \* the initramfs archive: the revision of payload/ it holds, or Torn
  image,      \* arch/riscv/boot/Image
  objects,    \* opensbi-build's lib and platform: the ISAs they are compiled for
  complete,   \* those that have all their objects
  firmware,   \* fw_payload
  stamp, pending   \* .build-inputs.json and .build-inputs.pending.json

kernel == <<tree, version, embedded, cpio, image>>
opensbi == <<objects, complete, firmware, stamp, pending>>
vars == <<setting, payload, goal, todo, kernel, opensbi>>

Isas == {s.isa : s \in Settings}
Versions == {s.version : s \in Settings}
Trees == {"lib", "platform"}
Torn == 0

\* The recipe lines of each goal.
Goals ==
  [build_linux |-> <<"clear", "stamp", "defconfig", "kernel">>,
   make_initramfs_tiny_shell |-> <<"pack">>,
   install_initramfs |-> <<"embed", "kernel">>,
   build_opensbi_with_kernel |-> <<"invalidate", "pending", "compile", "link", "commit">>]

\* Mutant: the initramfs is embedded before it is made.
BuildUnpacked ==
  Goals.build_linux \o Goals.install_initramfs \o Goals.make_initramfs_tiny_shell
    \o Goals.build_opensbi_with_kernel

\* What `make build` runs for the tiny shell.
Build ==
  Goals.build_linux \o Goals.make_initramfs_tiny_shell \o Goals.install_initramfs
    \o Goals.build_opensbi_with_kernel

ASSUME SettingsAssumption ==
  /\ Settings # {} /\ \A s \in Settings : DOMAIN s = {"version", "isa", "fdt"}
  /\ Alone \subseteq DOMAIN Goals /\ MaxRev \in Nat \ {0}

ASSUME NoneAssumption == None \notin Versions /\ \A T \in SUBSET Versions : T # None

Inputs(s, i) == [isa |-> s.isa, image |-> i, fdt |-> s.fdt]

Init ==
  /\ setting \in Settings /\ payload = 1 /\ goal = None /\ todo = <<>>
  /\ tree = None /\ version = None /\ embedded = None /\ cpio = None /\ image = None
  /\ objects = [t \in Trees |-> {}] /\ complete = {}
  /\ firmware = None /\ stamp = None /\ pending = None

-----------------------------------------------------------------------------
\* make configure with another preset.
Configure(s) ==
  /\ todo = <<>> /\ s # setting /\ setting' = s
  /\ UNCHANGED <<payload, goal, todo, kernel, opensbi>>

Edit ==
  /\ todo = <<>> /\ payload < MaxRev /\ payload' = payload + 1
  /\ UNCHANGED <<setting, goal, todo, kernel, opensbi>>

Start(g, steps) ==
  /\ todo = <<>> /\ goal' = g /\ todo' = steps
  /\ UNCHANGED <<setting, payload, kernel, opensbi>>

Step(s) == todo # <<>> /\ Head(todo) = s /\ todo' = Tail(todo) /\ UNCHANGED <<setting, payload, goal>>

\* Mutant: output without a version stamp is kept.
ClearStamped ==
  /\ Step("clear")
  /\ IF version \notin {None, setting.version}
     THEN /\ tree' = None /\ version' = None /\ embedded' = None /\ image' = None
     ELSE UNCHANGED <<tree, version, embedded, image>>
  /\ UNCHANGED <<cpio, opensbi>>

\* configure_kernel removes the output of another version, or of none.
ClearTree ==
  /\ Step("clear")
  /\ IF tree # None /\ version # setting.version
     THEN /\ tree' = None /\ version' = None /\ embedded' = None /\ image' = None
     ELSE UNCHANGED <<tree, version, embedded, image>>
  /\ UNCHANGED <<cpio, opensbi>>

\* mkdir and printf: the directory is there before the stamp.
StampTree ==
  /\ Step("stamp")
  /\ tree' = (IF tree = None THEN {} ELSE tree) /\ version' = setting.version
  /\ UNCHANGED <<embedded, cpio, image, opensbi>>

Defconfig ==
  /\ Step("defconfig")
  /\ embedded' = FALSE
  /\ UNCHANGED <<tree, version, cpio, image, opensbi>>

\* The kernel's make, with the sources of the version that is set.
BuildImage ==
  /\ Step("kernel")
  /\ tree' = tree \cup {setting.version}
  /\ image' = [version |-> setting.version, init |-> IF embedded = TRUE THEN cpio ELSE None]
  /\ UNCHANGED <<version, embedded, cpio, opensbi>>

\* build_init and gen_init_cpio, which is compiled into the kernel's output.
PackInitramfs ==
  /\ Step("pack")
  /\ tree' = (IF tree = None THEN {} ELSE tree) /\ cpio' = payload
  /\ UNCHANGED <<version, embedded, image, opensbi>>

\* install_initramfs requires the archive, and scripts/config the .config.
Embed ==
  /\ Step("embed")
  /\ cpio # None /\ embedded # None
  /\ embedded' = TRUE
  /\ UNCHANGED <<tree, version, cpio, image, opensbi>>

-----------------------------------------------------------------------------
\* prepare-opensbi.py: the Image exists and ends below the DTB.
Placed == image # None /\ <<image.version, setting.fdt>> \notin Overlapping

OtherIdentity == stamp = None \/ stamp.isa # setting.isa

\* Mutant: the kernel and the offset are not compared.
InvalidateByIsa ==
  /\ Step("invalidate") /\ Placed
  /\ IF OtherIdentity
     THEN objects' = [t \in Trees |-> {}] /\ complete' = {} /\ firmware' = None
     ELSE UNCHANGED <<objects, complete, firmware>>
  /\ UNCHANGED <<kernel, stamp, pending>>

\* Mutant: only lib is removed.
InvalidateLib ==
  /\ Step("invalidate") /\ Placed
  /\ IF OtherIdentity
     THEN objects' = [objects EXCEPT !["lib"] = {}] /\ complete' = complete \ {"lib"} /\ UNCHANGED firmware
     ELSE /\ UNCHANGED <<objects, complete>>
          /\ firmware' = IF stamp # Inputs(setting, image) THEN None ELSE firmware
  /\ UNCHANGED <<kernel, stamp, pending>>

\* Another ISA removes the objects, another kernel or DTB offset the payload.
Invalidate ==
  /\ Step("invalidate") /\ Placed
  /\ IF OtherIdentity
     THEN objects' = [t \in Trees |-> {}] /\ complete' = {} /\ firmware' = None
     ELSE /\ UNCHANGED <<objects, complete>>
          /\ firmware' = IF stamp # Inputs(setting, image) THEN None ELSE firmware
  /\ UNCHANGED <<kernel, stamp, pending>>

WritePending ==
  /\ Step("pending")
  /\ pending' = Inputs(setting, image)
  /\ UNCHANGED <<kernel, objects, complete, firmware, stamp>>

\* OpenSBI's make compiles the objects that are missing.
Compiled(done) ==
  /\ objects' = [t \in Trees |-> IF t \in complete THEN objects[t] ELSE objects[t] \cup {setting.isa}]
  /\ complete' = done

Compile ==
  /\ Step("compile")
  /\ Compiled(Trees)
  /\ firmware' = IF complete = Trees THEN firmware ELSE None
  /\ UNCHANGED <<kernel, stamp, pending>>

\* The payload is linked when it is missing or older than the Image or an object.
LinkFirmware ==
  /\ Step("link")
  /\ firmware' = IF firmware # None /\ firmware.image = image THEN firmware
                 ELSE [isas |-> UNION {objects[t] : t \in Trees}, image |-> image, fdt |-> setting.fdt]
  /\ UNCHANGED <<kernel, objects, complete, stamp, pending>>

\* mv .build-inputs.pending.json .build-inputs.json
Commit ==
  /\ Step("commit")
  /\ stamp' = pending /\ pending' = None
  /\ UNCHANGED <<kernel, objects, complete, firmware>>

Make ==
  \/ ClearTree \/ StampTree \/ Defconfig \/ BuildImage \/ PackInitramfs \/ Embed
  \/ Invalidate \/ WritePending \/ Compile \/ LinkFirmware \/ Commit

\* make is killed, or a command of it fails, before the next step or within it.
HalfCleared ==
  /\ Head(todo) = "clear" /\ tree # None /\ version # setting.version
  /\ version' \in {version, None} /\ embedded' \in {embedded, None} /\ image' \in {image, None}
  /\ UNCHANGED <<tree, cpio, opensbi>>

HalfStamped ==
  /\ Head(todo) = "stamp"
  /\ tree' = (IF tree = None THEN {} ELSE tree) /\ version' \in {version, None}
  /\ UNCHANGED <<embedded, cpio, image, opensbi>>

HalfCompiledKernel ==
  /\ Head(todo) = "kernel"
  /\ tree' = tree \cup {setting.version}
  /\ UNCHANGED <<version, embedded, cpio, image, opensbi>>

HalfPacked ==
  /\ Head(todo) = "pack"
  /\ tree' = (IF tree = None THEN {} ELSE tree) /\ cpio' = Torn
  /\ UNCHANGED <<version, embedded, image, opensbi>>

HalfInvalidated ==
  /\ Head(todo) = "invalidate" /\ Placed /\ stamp # Inputs(setting, image)
  /\ complete' \in {complete} \cup (IF OtherIdentity THEN {complete \ {"platform"}, {}} ELSE {})
  /\ firmware' = None
  /\ UNCHANGED <<kernel, objects, stamp, pending>>

HalfCompiled ==
  /\ Head(todo) = "compile" /\ complete # Trees
  /\ \E done \in SUBSET Trees : complete \subseteq done /\ Compiled(done)
  /\ firmware' = None
  /\ UNCHANGED <<kernel, stamp, pending>>

Half ==
  \/ UNCHANGED <<kernel, opensbi>>
  \/ HalfCleared \/ HalfStamped \/ HalfCompiledKernel \/ HalfPacked
  \/ HalfInvalidated \/ HalfCompiled

Fail ==
  /\ todo # <<>> /\ Head(todo) \in CrashPoints
  /\ Half /\ todo' = <<>>
  /\ UNCHANGED <<setting, payload, goal>>

\* A recipe's requirement is not met.
Refuse ==
  /\ todo # <<>>
  /\ \/ Head(todo) = "embed" /\ (cpio = None \/ embedded = None)
     \/ Head(todo) = "invalidate" /\ ~Placed
  /\ todo' = <<>>
  /\ UNCHANGED <<setting, payload, goal, kernel, opensbi>>

Next ==
  \/ \E s \in Settings : Configure(s)
  \/ Edit
  \/ Start("build", Build) \/ \E g \in Alone : Start(g, Goals[g])
  \/ Make \/ Refuse \/ Fail

Spec == Init /\ [][Next]_vars
-----------------------------------------------------------------------------
Images == [version : Versions, init : (0..MaxRev) \cup {None}]
Stamps == [isa : Isas, image : Images, fdt : {s.fdt : s \in Settings}] \cup {None}

\* The outputs are well formed, and a tree that is complete has objects.
TypeOK ==
  /\ setting \in Settings /\ payload \in 1..MaxRev
  /\ (tree = None \/ tree \subseteq Versions) /\ version \in Versions \cup {None}
  /\ embedded \in {TRUE, FALSE, None} /\ cpio \in 0..MaxRev \cup {None}
  /\ image \in Images \cup {None}
  /\ objects \in [Trees -> SUBSET Isas] /\ complete \subseteq {t \in Trees : objects[t] # {}}
  /\ firmware # None => complete = Trees /\ firmware.isas # {}
  /\ stamp \in Stamps /\ pending \in Stamps
  /\ tree = None => version = None /\ image = None /\ embedded = None

\* The kernel of build_linux is never compiled into the objects of another
\* version, wherever earlier builds of other versions were killed.
TreeOfVersion ==
  todo # <<>> /\ Head(todo) = "kernel" /\ goal \in {"build", "build_linux"} =>
    tree \subseteq {setting.version}

\* When build_opensbi_with_kernel succeeds, the firmware holds the kernel that
\* is there, at the offset that is set, in code compiled for the ISA that is set,
\* and the DTB is not in the kernel's memory.
FirmwareCurrent ==
  [][Commit =>
       /\ firmware = [isas |-> {setting.isa}, image |-> image, fdt |-> setting.fdt]
       /\ <<firmware.image.version, firmware.fdt>> \notin Overlapping]_vars

\* `make build` ends with the kernel version of the preset and the tiny shell as
\* it is in payload/.
BuildCurrent ==
  [][Commit /\ goal = "build" =>
       firmware.image = [version |-> setting.version, init |-> payload]]_vars
=============================================================================
