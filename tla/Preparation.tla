---------------------------- MODULE Preparation ----------------------------
(***************************************************************************)
(* What a `make build` builds from: the files that `make configure` writes *)
(* one after the other and `make clean_config` removes, and the kernel     *)
(* sources that every make which needs them prepares.  A make parses       *)
(* .config.mk when it starts, and its recipes start makes of their own,    *)
(* which parse it again.                                                   *)
(***************************************************************************)
EXTENDS KernelSource, Configuration, Sequences

CONSTANT Presets

VARIABLES
  conf,    \* each .config file: its text, or None
  job,     \* what each make was asked for, or None
  preset,  \* the preset it configures
  next,    \* the next of Outputs it writes or removes, or 0
  stage,   \* how far its build is
  vars,    \* the variables the build has parsed, and those its own makes have
  again,
  tree,    \* the sources it compiles
  config,  \* the kernel settings it has applied
  userspace,  \* the Buildroot configuration it has taken, or None
  wanted,  \* what a build would take by the last goal that completed, or None
  asked,   \* what it was when the build began; None when it is not to be compared
  cut      \* goals cut short since

written == <<conf, preset, next, wanted, cut>>
taken == <<vars, again, tree, config, userspace>>
preparation == <<source, written, job, stage, taken, asked>>

\* A world bounds the presets and the goals that are cut short in a row.
InUse == Presets \cap world.presets
Writing == {"configure", "clean_config"}
Stages == {"again", "shared", "variant", "userspace", "built"}

\* -include .config.mk, and the defaults of what it leaves unset.
Parse(mk) == IF mk = None THEN Defaults ELSE mk ++ Defaults

\* apply_kconfig_fragment leaves the configuration as it is without a file.
Applied(fragment, settings) == IF fragment = None THEN settings ELSE fragment ++ settings

\* What a build takes: the same variables in every make, the kernel settings of
\* its variant, verified sources, and Buildroot or not.
Whole(v, c, u) == [vars |-> v, again |-> v, tree |-> "good", config |-> c, userspace |-> u]

Requested(p) ==
  LET v == Parse(Text(p).mk)
  IN Whole(v, Text(p)[v.variant] ++ Text(p).kernel,
           IF HasUserspace(p) /\ ~OnDisk(v.rootfs) THEN Text(p).userspace ELSE None)

Unconfigured == Whole(Defaults, <<>>, None)

ASSUME PresetAssumption ==
  /\ Standard \in Versions /\ \A w \in Worlds : w.cuts \in Nat
  /\ None \notin Writing \cup Stages \cup {"build"} /\ None \notin Presets /\ None # Unconfigured
  /\ \A p \in Presets : ~Refused(p) =>
       /\ Parse(Text(p).mk).version \in Versions
       /\ None # Requested(p) /\ \A f \in DOMAIN Text(p) : Text(p)[f] # None

Init ==
  /\ SourceInit
  /\ conf = [f \in {Outputs[i] : i \in 1..Len(Outputs)} |-> None]
  /\ job = [m \in Makes |-> None] /\ preset = [m \in Makes |-> None]
  /\ next = [m \in Makes |-> 0] /\ stage = [m \in Makes |-> None]
  /\ vars = [m \in Makes |-> None] /\ again = [m \in Makes |-> None]
  /\ tree = [m \in Makes |-> None] /\ config = [m \in Makes |-> <<>>]
  /\ userspace = [m \in Makes |-> None] /\ asked = [m \in Makes |-> None]
  /\ wanted = Unconfigured /\ cut = 0

\* Goals are given one at a time, or builds run beside each other and beside a
\* goal that changes the configuration.
MayStart(m) ==
  /\ job[m] = None
  /\ world.serial => \A n \in Makes : job[n] = None

MayWrite(m) ==
  /\ MayStart(m) /\ \A n \in Makes : job[n] \in {None, "build"}

\* From here on the configuration is no preset's, nor what a build began with.
Disturb(m, j, p) ==
  /\ job' = [job EXCEPT ![m] = j] /\ preset' = [preset EXCEPT ![m] = p]
  /\ next' = [next EXCEPT ![m] = 1]
  /\ wanted' = None /\ asked' = [n \in Makes |-> None]
  /\ UNCHANGED <<source, conf, cut, stage, taken>>

-----------------------------------------------------------------------------
\* The variables are derived first, and a preset that is refused writes nothing.
Configure(m, p) ==
  /\ MayWrite(m) /\ p \in InUse
  /\ IF Refused(p) THEN UNCHANGED preparation ELSE Disturb(m, "configure", p)

CleanConfig(m) == MayWrite(m) /\ Disturb(m, "clean_config", None)

Output(m) == Outputs[next[m]]
Present(m) == job[m] = "configure" /\ (Output(m) = "userspace" => HasUserspace(preset[m]))

\* The make is through with a file, and ends with the last.
Advance(m, completed) ==
  /\ job[m] \in Writing
  /\ IF next[m] < Len(Outputs)
     THEN next' = [next EXCEPT ![m] = @ + 1] /\ UNCHANGED <<job, preset, wanted, cut>>
     ELSE /\ next' = [next EXCEPT ![m] = 0]
          /\ job' = [job EXCEPT ![m] = None] /\ preset' = [preset EXCEPT ![m] = None]
          /\ wanted' = completed /\ cut' = 0
  /\ UNCHANGED <<source, stage, taken, asked>>

\* write_text opens the file, which empties it.
Empty(m) ==
  /\ job[m] \in Writing /\ Present(m) /\ conf[Output(m)] # <<>>
  /\ conf' = [conf EXCEPT ![Output(m)] = <<>>]
  /\ UNCHANGED <<source, preset, next, wanted, cut, job, stage, taken, asked>>

Write(m) ==
  /\ job[m] \in Writing /\ Present(m) /\ conf[Output(m)] = <<>>
  /\ conf' = [conf EXCEPT ![Output(m)] = Text(preset[m])[Output(m)]]
  /\ Advance(m, Requested(preset[m]))

Completed(m) == IF job[m] = "configure" THEN Requested(preset[m]) ELSE Unconfigured

\* Mutant: what an earlier preset left stays.
LeaveUserspace(m) ==
  /\ job[m] \in Writing /\ ~Present(m)
  /\ conf' = IF job[m] = "configure" THEN conf ELSE [conf EXCEPT ![Output(m)] = None]
  /\ Advance(m, Completed(m))

\* .config.buildroot of a preset without userspace, or any file of clean_config.
Unlink(m) ==
  /\ job[m] \in Writing /\ ~Present(m)
  /\ conf' = [conf EXCEPT ![Output(m)] = None]
  /\ Advance(m, Completed(m))

\* A goal that changes the configuration is killed, or cannot write.
Cut(m) ==
  /\ job[m] \in Writing /\ cut < world.cuts /\ cut' = cut + 1
  /\ job' = [job EXCEPT ![m] = None] /\ preset' = [preset EXCEPT ![m] = None]
  /\ next' = [next EXCEPT ![m] = 0]
  /\ UNCHANGED <<source, conf, wanted, stage, taken, asked>>

-----------------------------------------------------------------------------
Stage(m, from, to) == job[m] = "build" /\ stage[m] = from /\ stage' = [stage EXCEPT ![m] = to]

\* make build parses the variables and runs the goal linux.
Build(m) ==
  /\ MayStart(m) /\ job' = [job EXCEPT ![m] = "build"]
  /\ stage' = [stage EXCEPT ![m] = "again"]
  /\ Prepare(m, Parse(conf["mk"]).version)
  /\ vars' = [vars EXCEPT ![m] = Parse(conf["mk"])] /\ asked' = [asked EXCEPT ![m] = wanted]
  /\ UNCHANGED <<written, again, tree, config, userspace>>

\* The make of build_linux or build_distro parses them again and runs linux.
BuildAgain(m) ==
  /\ Stage(m, "again", "shared")
  /\ Prepare(m, Parse(conf["mk"]).version)
  /\ again' = [again EXCEPT ![m] = Parse(conf["mk"])]
  /\ UNCHANGED <<written, job, vars, tree, config, userspace, asked>>

\* configure_kernel: defconfig from the source tree, and the shared fragment.
ApplyShared(m) ==
  /\ at[m] = "prepared" /\ Stage(m, "shared", "variant")
  /\ tree' = [tree EXCEPT ![m] = target[version[m]]]
  /\ config' = [config EXCEPT ![m] = Applied(conf["kernel"], <<>>)]
  /\ UNCHANGED <<source, written, job, vars, again, userspace, asked>>

ApplyVariant(m) ==
  /\ at[m] = "prepared" /\ Stage(m, "variant", "userspace")
  /\ config' = [config EXCEPT ![m] = Applied(conf[again[m].variant], @)]
  /\ UNCHANGED <<source, written, job, vars, again, tree, userspace, asked>>

\* Buildroot is built when its configuration is there, unless for a disk.
TakeUserspace(m) ==
  /\ at[m] = "prepared" /\ Stage(m, "userspace", "built")
  /\ userspace' = [userspace EXCEPT ![m] = IF OnDisk(vars[m].rootfs) THEN None ELSE conf["userspace"]]
  /\ UNCHANGED <<source, written, job, vars, again, tree, config, asked>>

\* The sources are being prepared.
Fetching(m) == PrepareStep(m) /\ UNCHANGED <<written, job, stage, taken, asked>>

\* The make is gone, and what it had taken with it.
Forget(m) ==
  /\ job' = [job EXCEPT ![m] = None] /\ stage' = [stage EXCEPT ![m] = None]
  /\ vars' = [vars EXCEPT ![m] = None] /\ again' = [again EXCEPT ![m] = None]
  /\ tree' = [tree EXCEPT ![m] = None] /\ config' = [config EXCEPT ![m] = <<>>]
  /\ userspace' = [userspace EXCEPT ![m] = None] /\ asked' = [asked EXCEPT ![m] = None]
  /\ UNCHANGED written

\* Mutant: the build ends while its curl goes on.
DoneAtOnce(m) ==
  /\ job[m] = "build" /\ at' = [at EXCEPT ![m] = "idle"]
  /\ UNCHANGED <<world, disk, own>>
  /\ Forget(m)

\* The build ends, at its end or before it.
Done(m) == Leave(m) /\ Forget(m)

Next ==
  \E m \in Makes :
    \/ \E p \in Presets : Configure(m, p)
    \/ CleanConfig(m) \/ Empty(m) \/ Write(m) \/ Unlink(m) \/ Cut(m)
    \/ Build(m) \/ BuildAgain(m) \/ ApplyShared(m) \/ ApplyVariant(m) \/ TakeUserspace(m)
    \/ Fetching(m) \/ Done(m)

Spec == Init /\ [][Next]_preparation
-----------------------------------------------------------------------------
\* A make that writes has a preset, one that builds is in the middle of it, and
\* the configuration is complete unless something writes it or was cut short.
TypeOK ==
  /\ SourceTypeOK
  /\ job \in [Makes -> Writing \cup {"build", None}] /\ next \in [Makes -> 0..Len(Outputs)]
  /\ cut \in 0..world.cuts
  /\ \A m \in Makes :
       /\ (job[m] = "configure") = (preset[m] # None) /\ (job[m] \in Writing) = (next[m] # 0)
       /\ (job[m] = "build") = (stage[m] # None) /\ (at[m] # "idle") = (job[m] = "build")
  /\ (wanted = None) = (cut > 0 \/ \E m \in Makes : next[m] # 0)

\* A build that nothing changed the configuration beneath is of one preset as a
\* whole: the variables of every make, the kernel settings of its variant, its
\* Buildroot or none, and the sources of its version are those of the preset
\* that was configured last, or the Makefile's own after clean_config, whatever
\* was configured, refused, cut short or removed before (scripts/gen-config.py,
\* goals configure, clean_config and build).
OnePreset ==
  \A m \in Makes : stage[m] = "built" /\ asked[m] # None =>
    asked[m] = [vars |-> vars[m], again |-> again[m], tree |-> tree[m],
                config |-> config[m], userspace |-> userspace[m]]

\* Whatever goals run, in whatever order and cut short wherever, the sources
\* change as prepare-linux.py changes them, each time from its start and for a
\* version that there is: also when .config.mk is empty or not there
\* (Makefile, goal linux).
ImplementsSources == SourceSpec
=============================================================================
