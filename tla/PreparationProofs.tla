------------------------- MODULE PreparationProofs -------------------------
(***************************************************************************)
(* Proofs about Preparation for any presets, makes, versions and pieces.   *)
(* The reason a build is of one preset as a whole is in three parts: a     *)
(* goal that writes the files has done with those before the next one and  *)
(* stands alone (WriterInv), so that when it completes the files are the   *)
(* preset's (ConfInv); and what a build has taken from them at each stage   *)
(* is what they still say, unless something disturbed it (BuildInv).       *)
(***************************************************************************)
EXTENDS Preparation, KernelSourceProofs

LEMMA OfDefaults ==
  /\ Defaults.version = Standard /\ Defaults.variant = "minimal" /\ Defaults.rootfs = "initramfs"
  /\ {"version", "variant", "rootfs"} \subseteq DOMAIN Defaults
BY DEF Defaults

\* f ++ g is f, and g where f says nothing.
LEMMA Rest ==
  ASSUME NEW f, NEW g, NEW x \in DOMAIN g, x \notin DOMAIN f
  PROVE  (f ++ g)[x] = g[x]
BY DEF ++

LEMMA Stated ==
  ASSUME NEW f, NEW g, NEW x \in DOMAIN f
  PROVE  (f ++ g)[x] = f[x]
BY DEF ++

LEMMA OfAll == ASSUME NEW f, NEW g PROVE DOMAIN (f ++ g) = DOMAIN f \cup DOMAIN g
BY DEF ++

LEMMA Nothing == ASSUME NEW f, NEW g PROVE (f ++ g) ++ <<>> = f ++ g
<1> DEFINE h == f ++ g
<1>1. h = [x \in DOMAIN h |-> h[x]] /\ DOMAIN <<>> = {}
  BY DEF ++
<1> HIDE DEF h
<1>2. h ++ <<>> = [x \in DOMAIN h |-> h[x]]
  BY <1>1 DEF ++
<1> QED BY <1>1, <1>2 DEF h

LEMMA ParsedVersion ==
  ASSUME NEW mk \in {None, <<>>} PROVE Parse(mk).version = Standard
<1>1. CASE mk = None
  BY <1>1, OfDefaults DEF Parse
<1>2. CASE mk # None
  <2>1. Parse(mk) = <<>> ++ Defaults /\ DOMAIN <<>> = {}
    BY <1>2 DEF Parse
  <2>2. Parse(mk)["version"] = Defaults["version"]
    BY <2>1, Rest, OfDefaults
  <2> QED BY <2>2, OfDefaults
<1> QED BY <1>1, <1>2

LEMMA OfMakeVars ==
  ASSUME NEW p
  PROVE  /\ "version" \in DOMAIN MakeVars(p) /\ "rootfs" \in DOMAIN MakeVars(p)
         /\ ~OnDisk(Rootfs(p)) => "variant" \notin DOMAIN MakeVars(p)
         /\ OnDisk(Rootfs(p)) => "variant" \in DOMAIN MakeVars(p) /\ MakeVars(p)["variant"] = "distro"
<1>1. "version" \in DOMAIN Variables(p) /\ "rootfs" \in DOMAIN Variables(p) /\ "variant" \notin DOMAIN Variables(p)
  BY DEF Variables
<1>2. "variant" \in DOMAIN DiskVariables(p) /\ DiskVariables(p)["variant"] = "distro"
  BY DEF DiskVariables, IsaAbi
<1>3. CASE OnDisk(Rootfs(p))
  <2>1. MakeVars(p) = DiskVariables(p) ++ Variables(p)
    BY <1>3 DEF MakeVars
  <2>2. DOMAIN MakeVars(p) = DOMAIN DiskVariables(p) \cup DOMAIN Variables(p)
    BY <2>1, OfAll
  <2>3. MakeVars(p)["variant"] = "distro"
    BY <1>2, <2>1, Stated
  <2> QED BY <1>1, <1>2, <1>3, <2>2, <2>3
<1>4. CASE ~OnDisk(Rootfs(p))
  <2>1. MakeVars(p) = Variables(p)
    BY <1>4 DEF MakeVars
  <2> QED BY <1>1, <1>4, <2>1
<1> QED BY <1>3, <1>4

-----------------------------------------------------------------------------
Names == {"mk", "kernel", "minimal", "buildroot", "distro", "userspace"}

\* The files are written in an order, each once.
LEMMA SixFiles ==
  /\ Len(Outputs) = 6 /\ {Outputs[i] : i \in 1..6} = Names
  /\ \A i \in 1..6 : Outputs[i] \in Names
  /\ \A i, j \in 1..6 : i # j => Outputs[i] # Outputs[j]
<1>1. /\ Len(Outputs) = 6 /\ Outputs[1] = "mk" /\ Outputs[2] = "kernel" /\ Outputs[3] = "minimal"
      /\ Outputs[4] = "buildroot" /\ Outputs[5] = "distro" /\ Outputs[6] = "userspace"
  BY DEF Outputs
<1>2. 1..6 = {1, 2, 3, 4, 5, 6}
  OBVIOUS
<1>3. \A i \in {1, 2, 3, 4, 5, 6} : Outputs[i] \in Names
  BY <1>1 DEF Names
<1>4. \A i, j \in {1, 2, 3, 4, 5, 6} : i # j => Outputs[i] # Outputs[j]
  BY <1>1
<1>5. {Outputs[i] : i \in {1, 2, 3, 4, 5, 6}} = Names
  BY <1>1 DEF Names
<1> QED BY <1>1, <1>2, <1>3, <1>4, <1>5

\* The presets that gen-config.py does not refuse.
Sound == {p \in Presets : ~Refused(p)}

LEMMA OfText ==
  ASSUME NEW p \in Sound
  PROVE  /\ DOMAIN Text(p) = Names /\ \A f \in Names : Text(p)[f] # None
         /\ Text(p)["mk"] = MakeVars(p) /\ Text(p)["kernel"] = SharedFragment(p)
         /\ Text(p).mk = Text(p)["mk"] /\ Text(p).kernel = Text(p)["kernel"]
         /\ Text(p).userspace = Text(p)["userspace"]
<1> DEFINE own1 == [mk |-> MakeVars(p), kernel |-> SharedFragment(p), userspace |-> BuildrootFragment(p)]
           shared1 == [v \in Variants |-> Given(p, v, <<>>)]
<1>1. Text(p) = own1 ++ shared1
  BY DEF Text
<1>2. DOMAIN own1 = {"mk", "kernel", "userspace"} /\ DOMAIN shared1 = {"minimal", "buildroot", "distro"}
  BY DEF Variants
<1>3. own1["mk"] = MakeVars(p) /\ own1["kernel"] = SharedFragment(p)
  OBVIOUS
<1> HIDE DEF own1, shared1
<1>4. DOMAIN Text(p) = DOMAIN own1 \cup DOMAIN shared1
  BY <1>1, OfAll
<1>5. DOMAIN Text(p) = Names
  BY <1>2, <1>4 DEF Names
<1>6. Text(p)["mk"] = own1["mk"] /\ Text(p)["kernel"] = own1["kernel"]
  BY <1>1, <1>2, Stated
<1>7. \A f \in Names : Text(p)[f] # None
  BY <1>5, PresetAssumption DEF Sound
<1> QED BY <1>3, <1>5, <1>6, <1>7

\* What a build parses of a preset: a version that exists, and a variant.
LEMMA OfParsed ==
  ASSUME NEW p \in Sound
  PROVE  /\ Parse(Text(p)["mk"]).version \in Versions
         /\ Parse(Text(p)["mk"]).variant \in {"minimal", "distro"}
<1>1. Parse(Text(p)["mk"]) = MakeVars(p) ++ Defaults
  BY OfText DEF Parse, Names
<1>2. Parse(Text(p)["mk"])["variant"] \in {"minimal", "distro"}
  <2>1. CASE OnDisk(Rootfs(p))
    BY <1>1, <2>1, OfMakeVars, Stated
  <2>2. CASE ~OnDisk(Rootfs(p))
    BY <1>1, <2>2, OfMakeVars, OfDefaults, Rest
  <2> QED BY <2>1, <2>2
<1>3. Parse(Text(p)["mk"]).version \in Versions
  BY OfText, PresetAssumption DEF Sound
<1> QED BY <1>2, <1>3

\* What a build takes from the files as they are.
Takes(c) ==
  LET v == Parse(c["mk"])
  IN Whole(v, Applied(c[v.variant], Applied(c["kernel"], <<>>)), IF OnDisk(v.rootfs) THEN None ELSE c["userspace"])

\* What the goal makes of the files.
Goal(j, p) ==
  [f \in Names |-> IF j = "configure" /\ (f = "userspace" => HasUserspace(p)) THEN Text(p)[f] ELSE None]

\* From the files of one preset a build takes what the preset asks for.
LEMMA Configured ==
  ASSUME NEW p \in Sound, NEW c, \A f \in Names : c[f] = Goal("configure", p)[f]
  PROVE  Takes(c) = Requested(p)
<1> DEFINE v == Parse(Text(p)["mk"])
<1>1. /\ c["mk"] = Text(p)["mk"] /\ c["kernel"] = Text(p)["kernel"]
      /\ c["minimal"] = Text(p)["minimal"] /\ c["distro"] = Text(p)["distro"]
      /\ c["userspace"] = IF HasUserspace(p) THEN Text(p)["userspace"] ELSE None
  BY DEF Goal, Names
<1>2. v.variant \in {"minimal", "distro"}
  BY OfParsed
<1>3. c[v.variant] = Text(p)[v.variant] /\ v.variant \in Names
  BY <1>1, <1>2 DEF Names
<1>4. Applied(c["kernel"], <<>>) = Text(p)["kernel"]
  <2>1. Text(p)["kernel"] = SharedFragment(p) /\ Text(p)["kernel"] # None
    BY OfText DEF Names
  <2>2. SharedFragment(p) ++ <<>> = SharedFragment(p)
    BY Nothing DEF SharedFragment
  <2> QED BY <1>1, <2>1, <2>2 DEF Applied
<1>5. Applied(c[v.variant], Text(p)["kernel"]) = Text(p)[v.variant] ++ Text(p)["kernel"]
  BY <1>3, OfText DEF Applied
<1>6. Text(p).mk = Text(p)["mk"] /\ Text(p).kernel = Text(p)["kernel"] /\ Text(p).userspace = Text(p)["userspace"]
  BY OfText
<1> HIDE DEF v
<1>7. Requested(p) = Whole(v, Text(p)[v.variant] ++ Text(p)["kernel"], IF HasUserspace(p) /\ ~OnDisk(v.rootfs) THEN Text(p)["userspace"] ELSE None)
  BY <1>6 DEF Requested, v
<1>8. Takes(c) = Whole(v, Applied(c[v.variant], Applied(c["kernel"], <<>>)), IF OnDisk(v.rootfs) THEN None ELSE c["userspace"])
  BY <1>1 DEF Takes, v
<1> QED BY <1>1, <1>4, <1>5, <1>7, <1>8

\* And without any, what the defaults of the Makefile are.
LEMMA NotConfigured ==
  ASSUME NEW c, \A f \in Names : c[f] = None
  PROVE  Takes(c) = Unconfigured
<1>1. c["mk"] = None /\ c["kernel"] = None /\ c["minimal"] = None /\ c["userspace"] = None
  BY DEF Names
<1>2. Parse(None) = Defaults /\ Defaults.variant = "minimal"
  BY OfDefaults DEF Parse
<1>3. Applied(None, Applied(None, <<>>)) = <<>>
  BY DEF Applied
<1>4. Takes(c) = Whole(Defaults, Applied(c["minimal"], Applied(c["kernel"], <<>>)), IF OnDisk(Defaults.rootfs) THEN None ELSE c["userspace"])
  BY <1>1, <1>2 DEF Takes
<1> QED BY <1>1, <1>3, <1>4 DEF Unconfigured

-----------------------------------------------------------------------------
Writes(m) == job[m] \in Writing

\* The make is through with the files before the next, and stands alone.
WriterInv ==
  \A m \in Makes : Writes(m) =>
    /\ next[m] \in 1..6 /\ wanted = None /\ (job[m] = "configure" => preset[m] \in Sound)
    /\ \A i \in 1..6 : i < next[m] => conf[Outputs[i]] = Goal(job[m], preset[m])[Outputs[i]]
    /\ \A n \in Makes : Writes(n) => n = m

\* The files are those of the goal that completed last.
ConfInv ==
  /\ DOMAIN conf = Names /\ conf = [f \in Names |-> conf[f]]
  /\ conf["mk"] \in {None, <<>>} \cup {Text(p)["mk"] : p \in Sound}
  /\ wanted # None => wanted = Takes(conf)

\* The worlds in which the sources a build gets are good (SourceVerified).
Trusted == world.serial \/ world.honest
Parsed == Parse(conf["mk"])
Shared == Applied(conf["kernel"], <<>>)

\* What an undisturbed build has taken at each stage is what the files say.
Taken(m) ==
  /\ stage[m] \in {"again", "shared", "variant", "userspace", "built"} => vars[m] = Parsed
  /\ stage[m] \in {"shared", "variant", "userspace", "built"} => again[m] = Parsed
  /\ stage[m] \in {"variant", "userspace", "built"} => (Trusted => tree[m] = "good")
  /\ stage[m] = "variant" => config[m] = Shared
  /\ stage[m] \in {"userspace", "built"} => config[m] = Applied(conf[Parsed.variant], Shared)
  /\ stage[m] = "built" => userspace[m] = IF OnDisk(Parsed.rootfs) THEN None ELSE conf["userspace"]

BuildInv ==
  \A m \in Makes : asked[m] # None => asked[m] = wanted /\ Taken(m)

Arrays ==
  /\ DOMAIN job = Makes /\ DOMAIN preset = Makes /\ DOMAIN next = Makes /\ DOMAIN stage = Makes
  /\ DOMAIN vars = Makes /\ DOMAIN again = Makes /\ DOMAIN tree = Makes /\ DOMAIN config = Makes
  /\ DOMAIN userspace = Makes /\ DOMAIN asked = Makes

FilesInv == SourceInv /\ Arrays /\ WriterInv /\ ConfInv

LEMMA ParsesVersion == ASSUME ConfInv PROVE Parse(conf["mk"]).version \in Versions
<1>1. CASE conf["mk"] \in {None, <<>>}
  BY <1>1, ParsedVersion, PresetAssumption
<1>2. CASE conf["mk"] \in {Text(p)["mk"] : p \in Sound}
  BY <1>2, OfParsed
<1> QED BY <1>1, <1>2 DEF ConfInv

\* The sources change in steps of prepare-linux.py, or stay.
LEMMA SourcesStep ==
  ASSUME FilesInv, Next
  PROVE  SourceInv'
<1>0. SourceInv
  BY DEF FilesInv
<1>1. PICK m \in Makes :
        \/ \E p \in Presets : Configure(m, p)
        \/ CleanConfig(m) \/ Empty(m) \/ Write(m) \/ Unlink(m) \/ Cut(m)
        \/ Build(m) \/ BuildAgain(m) \/ ApplyShared(m) \/ ApplyVariant(m) \/ TakeUserspace(m)
        \/ Fetching(m) \/ Done(m)
  BY DEF Next
<1>2. CASE Build(m) \/ BuildAgain(m)
  BY <1>0, <1>2, ParsesVersion, InvStep DEF Build, BuildAgain, Steps, FilesInv
<1>3. CASE Fetching(m) \/ Done(m)
  BY <1>0, <1>3, InvStep DEF Fetching, Done, Steps
<1>4. CASE \/ \E p \in Presets : Configure(m, p)
           \/ CleanConfig(m) \/ Empty(m) \/ Write(m) \/ Unlink(m) \/ Cut(m)
           \/ ApplyShared(m) \/ ApplyVariant(m) \/ TakeUserspace(m)
  <2>1. UNCHANGED source
    BY <1>4 DEF Configure, CleanConfig, Disturb, Empty, Write, Unlink, Advance, Cut, ApplyShared, ApplyVariant,
                TakeUserspace, preparation
  <2> QED BY <1>0, <2>1, InvStutter
<1> QED BY <1>1, <1>2, <1>3, <1>4

LEMMA ArraysStep == ASSUME Arrays, Next PROVE Arrays'
BY DEF Arrays, Next, Configure, CleanConfig, Disturb, Empty, Write, Unlink, Advance, Cut, Build, BuildAgain, ApplyShared,
       ApplyVariant, TakeUserspace, Fetching, Done, Forget, Stage, preparation, written, taken

-----------------------------------------------------------------------------
\* Writing a file.
LEMMA EmptyStep ==
  ASSUME FilesInv, BuildInv, NEW m \in Makes, Empty(m)
  PROVE  WriterInv' /\ ConfInv' /\ BuildInv'
<1> DEFINE o == Outputs[next[m]]
<1>1. /\ Writes(m) /\ conf' = [conf EXCEPT ![o] = <<>>]
      /\ UNCHANGED <<preset, next, wanted, job, stage, taken, asked>>
  BY DEF Empty, Writes, Output
<1>2. /\ next[m] \in 1..6 /\ wanted = None /\ (job[m] = "configure" => preset[m] \in Sound)
      /\ \A i \in 1..6 : i < next[m] => conf[Outputs[i]] = Goal(job[m], preset[m])[Outputs[i]]
      /\ \A n \in Makes : Writes(n) => n = m
  BY <1>1 DEF FilesInv, WriterInv
<1>3. ConfInv /\ o \in Names
  BY <1>2, SixFiles DEF FilesInv
<1>4. \A f \in Names : conf'[f] = IF f = o THEN <<>> ELSE conf[f]
  BY <1>1, <1>3 DEF ConfInv
<1>5. \A i \in 1..6 : i < next[m] => conf'[Outputs[i]] = conf[Outputs[i]]
  BY <1>2, <1>4, SixFiles
<1>6. WriterInv'
  BY <1>1, <1>2, <1>5 DEF WriterInv, Writes
<1>7. conf'["mk"] \in {None, <<>>} \cup {Text(p)["mk"] : p \in Sound}
  BY <1>3, <1>4 DEF ConfInv, Names
<1>8. ConfInv'
  BY <1>1, <1>2, <1>3, <1>7 DEF ConfInv
<1>9. BuildInv'
  BY <1>1, <1>2 DEF BuildInv
<1> QED BY <1>6, <1>8, <1>9

LEMMA AdvanceStep ==
  ASSUME FilesInv, BuildInv, NEW m \in Makes, Writes(m),
         conf' = [conf EXCEPT ![Output(m)] = Goal(job[m], preset[m])[Output(m)]],
         Advance(m, Completed(m))
  PROVE  WriterInv' /\ ConfInv' /\ BuildInv'
<1> DEFINE o == Outputs[next[m]]
           goal == Goal(job[m], preset[m])
<1>1. conf' = [conf EXCEPT ![o] = goal[o]]
  BY DEF Output
<1>2. /\ next[m] \in 1..6 /\ wanted = None /\ (job[m] = "configure" => preset[m] \in Sound)
      /\ \A i \in 1..6 : i < next[m] => conf[Outputs[i]] = goal[Outputs[i]]
      /\ \A n \in Makes : Writes(n) => n = m
  BY DEF FilesInv, WriterInv
<1>3. ConfInv /\ Arrays /\ o \in Names
  BY <1>2, SixFiles DEF FilesInv
<1>4. /\ \A f \in Names : conf'[f] = IF f = o THEN goal[f] ELSE conf[f]
      /\ DOMAIN conf' = Names /\ conf' = [f \in Names |-> conf'[f]]
  BY <1>1, <1>3 DEF ConfInv
<1>5. \A i \in 1..6 : i < next[m] + 1 => conf'[Outputs[i]] = goal[Outputs[i]]
  BY <1>2, <1>4, SixFiles
<1>6. conf'["mk"] \in {None, <<>>} \cup {Text(p)["mk"] : p \in Sound}
  <2>1. CASE o = "mk"
    <3>1. conf'["mk"] = goal["mk"]
      BY <1>4, <2>1 DEF Names
    <3>2. CASE job[m] = "configure"
      BY <1>2, <3>1, <3>2 DEF Goal, Names
    <3>3. CASE job[m] # "configure"
      BY <3>1, <3>3 DEF Goal, Names
    <3> QED BY <3>2, <3>3
  <2>2. CASE o # "mk"
    BY <1>3, <1>4, <2>2 DEF ConfInv, Names
  <2> QED BY <2>1, <2>2
<1>7. \A n \in Makes : asked[n] = None
  BY <1>2 DEF BuildInv
<1>8. BuildInv'
  BY <1>7 DEF BuildInv, Advance
<1>9. CASE next[m] < Len(Outputs)
  <2>1. next' = [next EXCEPT ![m] = @ + 1] /\ UNCHANGED <<job, preset, wanted>>
    BY <1>9 DEF Advance
  <2>2. next'[m] = next[m] + 1 /\ next'[m] \in 1..6
    BY <1>2, <1>3, <1>9, <2>1, SixFiles DEF Arrays
  <2>3. WriterInv'
    BY <1>2, <1>5, <2>1, <2>2 DEF WriterInv, Writes
  <2>4. ConfInv'
    BY <1>2, <1>4, <1>6, <2>1 DEF ConfInv
  <2> QED BY <1>8, <2>3, <2>4
<1>10. CASE ~(next[m] < Len(Outputs))
  <2>1. job' = [job EXCEPT ![m] = None] /\ wanted' = Completed(m)
    BY <1>10 DEF Advance
  <2>2. None \notin Writing
    BY PresetAssumption
  <2>3. WriterInv'
    BY <1>2, <1>3, <2>1, <2>2 DEF WriterInv, Writes, Arrays
  <2>4. next[m] = 6
    BY <1>2, <1>10, SixFiles
  <2>5. \A f \in Names : conf'[f] = goal[f]
    <3>1. \A i \in 1..6 : conf'[Outputs[i]] = goal[Outputs[i]]
      BY <1>5, <2>4
    <3> QED BY <3>1, SixFiles
  <2>6. Takes(conf') = Completed(m)
    <3>1. CASE job[m] = "configure"
      <4>1. preset[m] \in Sound /\ \A f \in Names : conf'[f] = Goal("configure", preset[m])[f]
        BY <1>2, <2>5, <3>1
      <4> HIDE DEF goal
      <4>2. Takes(conf') = Requested(preset[m])
        BY <4>1, Configured
      <4> QED BY <3>1, <4>2 DEF Completed
    <3>2. CASE job[m] # "configure"
      <4>1. \A f \in Names : conf'[f] = None
        BY <2>5, <3>2 DEF Goal
      <4>2. Takes(conf') = Unconfigured
        BY <4>1, NotConfigured
      <4> QED BY <3>2, <4>2 DEF Completed
    <3> QED BY <3>1, <3>2
  <2>7. ConfInv'
    BY <1>4, <1>6, <2>1, <2>6 DEF ConfInv, Takes
  <2> QED BY <1>8, <2>3, <2>7
<1> QED BY <1>9, <1>10

LEMMA FileStep ==
  ASSUME FilesInv, BuildInv, NEW m \in Makes, Write(m) \/ Unlink(m)
  PROVE  WriterInv' /\ ConfInv' /\ BuildInv'
<1> DEFINE o == Output(m)
<1>1. Writes(m) /\ o \in Names
  <2>1. Writes(m)
    BY DEF Write, Unlink, Writes
  <2>2. next[m] \in 1..6
    BY <2>1 DEF FilesInv, WriterInv
  <2> QED BY <2>1, <2>2, SixFiles DEF Output
<1>2. CASE Write(m)
  <2>1. /\ job[m] = "configure" /\ (o = "userspace" => HasUserspace(preset[m]))
        /\ conf' = [conf EXCEPT ![o] = Text(preset[m])[o]] /\ Advance(m, Requested(preset[m]))
    BY <1>2 DEF Write, Present
  <2>2. Text(preset[m])[o] = Goal(job[m], preset[m])[o] /\ Completed(m) = Requested(preset[m])
    BY <1>1, <2>1 DEF Goal, Completed
  <2> QED BY <1>1, <2>1, <2>2, AdvanceStep
<1>3. CASE Unlink(m)
  <2>1. /\ ~(job[m] = "configure" /\ (o = "userspace" => HasUserspace(preset[m])))
        /\ conf' = [conf EXCEPT ![o] = None] /\ Advance(m, Completed(m))
    BY <1>3 DEF Unlink, Present
  <2>2. None = Goal(job[m], preset[m])[o]
    BY <1>1, <2>1 DEF Goal
  <2> QED BY <1>1, <2>1, <2>2, AdvanceStep
<1> QED BY <1>2, <1>3

-----------------------------------------------------------------------------
\* Beginning and ending goals.
LEMMA GoalStep ==
  ASSUME FilesInv, BuildInv, NEW m \in Makes,
         (\E p \in Presets : Configure(m, p)) \/ CleanConfig(m) \/ Cut(m)
  PROVE  WriterInv' /\ ConfInv' /\ BuildInv'
<1>0. Arrays /\ WriterInv /\ ConfInv /\ None \notin Writing \cup {"build"}
  BY PresetAssumption DEF FilesInv
<1>1. ASSUME NEW j \in Writing, NEW p, Disturb(m, j, p), j = "configure" => p \in Sound,
             \A n \in Makes : job[n] \in {None, "build"}
      PROVE  WriterInv' /\ ConfInv' /\ BuildInv'
  <2>1. /\ job' = [job EXCEPT ![m] = j] /\ preset' = [preset EXCEPT ![m] = p] /\ next' = [next EXCEPT ![m] = 1]
        /\ wanted' = None /\ asked' = [n \in Makes |-> None] /\ conf' = conf
    BY <1>1 DEF Disturb
  <2>2. \A n \in Makes : ~Writes(n)
    BY <1>0, <1>1 DEF Writes, Writing
  <2>3. \A n \in Makes : Writes(n)' => n = m
    BY <1>0, <2>1, <2>2 DEF Writes, Arrays
  <2>4. job'[m] = j /\ preset'[m] = p /\ next'[m] = 1
    BY <1>0, <2>1 DEF Arrays
  <2>5. WriterInv'
    BY <1>1, <2>1, <2>3, <2>4 DEF WriterInv
  <2>6. ConfInv' /\ BuildInv'
    BY <1>0, <2>1 DEF ConfInv, BuildInv
  <2> QED BY <2>5, <2>6
<1>2. ASSUME UNCHANGED preparation PROVE WriterInv' /\ ConfInv' /\ BuildInv'
  BY <1>0, <1>2 DEF preparation, written, taken, WriterInv, Writes, ConfInv, Takes, BuildInv, Taken, Parsed, Shared, Trusted, source
<1>3. ASSUME NEW p \in Presets, Configure(m, p) PROVE WriterInv' /\ ConfInv' /\ BuildInv'
  <2>1. CASE Refused(p)
    BY <1>2, <1>3, <2>1 DEF Configure
  <2>2. CASE ~Refused(p)
    <3>1. Disturb(m, "configure", p) /\ p \in Sound /\ \A n \in Makes : job[n] \in {None, "build"}
      BY <1>3, <2>2 DEF Configure, MayWrite, Sound
    <3> QED BY <1>1, <3>1 DEF Writing
  <2> QED BY <2>1, <2>2
<1>4. CASE CleanConfig(m)
  <2>1. Disturb(m, "clean_config", None) /\ \A n \in Makes : job[n] \in {None, "build"}
    BY <1>4 DEF CleanConfig, MayWrite
  <2> QED BY <1>1, <2>1 DEF Writing
<1>5. CASE Cut(m)
  <2>1. /\ job' = [job EXCEPT ![m] = None] /\ Writes(m)
        /\ UNCHANGED <<conf, wanted, asked>>
    BY <1>5 DEF Cut, Writes
  <2>2. \A n \in Makes : ~Writes(n)'
    BY <1>0, <2>1 DEF WriterInv, Writes, Arrays
  <2>3. \A n \in Makes : asked[n] = None
    BY <1>0, <2>1 DEF WriterInv, BuildInv
  <2> QED BY <1>0, <2>1, <2>2, <2>3 DEF WriterInv, ConfInv, Takes, BuildInv
<1> QED BY <1>3, <1>4, <1>5

\* A step of a build leaves the files alone, and other builds.
LEMMA BuildStep ==
  ASSUME FilesInv, BuildInv, NEW m \in Makes, UNCHANGED <<written, world>>,
         \A n \in Makes : job'[n] = job[n] \/ job'[n] \in {"build", None},
         \A n \in Makes \ {m} : /\ stage'[n] = stage[n] /\ vars'[n] = vars[n] /\ again'[n] = again[n] /\ tree'[n] = tree[n]
                                /\ config'[n] = config[n] /\ userspace'[n] = userspace[n] /\ asked'[n] = asked[n],
         asked'[m] # None => asked'[m] = wanted /\ Taken(m)'
  PROVE  WriterInv' /\ ConfInv' /\ BuildInv'
<1>0. WriterInv /\ ConfInv /\ None \notin Writing \cup {"build"} /\ "build" \notin Writing
  BY PresetAssumption DEF FilesInv, Writing
<1>1. UNCHANGED <<conf, preset, next, wanted, cut>>
  BY DEF written
<1>2. \A n \in Makes : Writes(n)' => Writes(n) /\ job'[n] = job[n]
  BY <1>0 DEF Writes
<1>3. WriterInv'
  BY <1>0, <1>1, <1>2 DEF WriterInv
<1>4. ConfInv'
  BY <1>0, <1>1 DEF ConfInv, Takes
<1>5. ASSUME NEW n \in Makes, n # m, asked'[n] # None PROVE asked'[n] = wanted' /\ Taken(n)'
  BY <1>1, <1>5 DEF BuildInv, Taken, Parsed, Shared, Trusted
<1>6. BuildInv'
  BY <1>1, <1>5 DEF BuildInv
<1> QED BY <1>3, <1>4, <1>6

\* From prepared sources a build compiles the published ones.
LEMMA GoodTree ==
  ASSUME FilesInv, NEW m \in Makes, at[m] = "prepared", Trusted
  PROVE  target[version[m]] = "good"
<1>1. SourceVerified /\ PreparedInv
  BY InvVerified DEF FilesInv, SourceInv
<1> QED BY <1>1 DEF SourceVerified, PreparedInv, Trusted

LEMMA BuildsStep ==
  ASSUME FilesInv, BuildInv, NEW m \in Makes,
         Build(m) \/ BuildAgain(m) \/ ApplyShared(m) \/ ApplyVariant(m) \/ TakeUserspace(m) \/ Fetching(m) \/ Done(m)
  PROVE  WriterInv' /\ ConfInv' /\ BuildInv'
<1>0. Arrays /\ (asked[m] # None => asked[m] = wanted /\ Taken(m))
  BY DEF FilesInv, BuildInv
<1> DEFINE others == \A n \in Makes \ {m} :
             /\ stage'[n] = stage[n] /\ vars'[n] = vars[n] /\ again'[n] = again[n] /\ tree'[n] = tree[n]
             /\ config'[n] = config[n] /\ userspace'[n] = userspace[n] /\ asked'[n] = asked[n]
           jobs == \A n \in Makes : job'[n] = job[n] \/ job'[n] \in {"build", None}
           goal == asked'[m] # None => asked'[m] = wanted /\ Taken(m)'
           same == UNCHANGED <<conf, preset, next, wanted, cut, world>>
<1>1. CASE Build(m)
  <2>1. /\ job' = [job EXCEPT ![m] = "build"] /\ stage' = [stage EXCEPT ![m] = "again"]
        /\ vars' = [vars EXCEPT ![m] = Parsed] /\ asked' = [asked EXCEPT ![m] = wanted]
        /\ UNCHANGED <<again, tree, config, userspace>> /\ same
    BY <1>1 DEF Build, Prepare, written, Parsed
  <2>2. others /\ jobs
    BY <1>0, <2>1 DEF Arrays
  <2>3. stage'[m] = "again" /\ vars'[m] = Parsed /\ asked'[m] = wanted /\ Parsed' = Parsed
    BY <1>0, <2>1 DEF Arrays, Parsed
  <2>4. goal
    BY <2>3 DEF Taken
  <2> QED BY <2>1, <2>2, <2>4, BuildStep DEF written
<1>2. CASE BuildAgain(m)
  <2>1. /\ stage[m] = "again" /\ stage' = [stage EXCEPT ![m] = "shared"] /\ again' = [again EXCEPT ![m] = Parsed]
        /\ UNCHANGED <<job, vars, tree, config, userspace, asked>> /\ same
    BY <1>2 DEF BuildAgain, Stage, Prepare, written, Parsed
  <2>2. others /\ jobs
    BY <1>0, <2>1 DEF Arrays
  <2>3. stage'[m] = "shared" /\ again'[m] = Parsed /\ Parsed' = Parsed
    BY <1>0, <2>1 DEF Arrays, Parsed
  <2>4. goal
    BY <1>0, <2>1, <2>3 DEF Taken
  <2> QED BY <2>1, <2>2, <2>4, BuildStep DEF written
<1>3. CASE ApplyShared(m)
  <2>1. /\ at[m] = "prepared" /\ stage[m] = "shared" /\ stage' = [stage EXCEPT ![m] = "variant"]
        /\ tree' = [tree EXCEPT ![m] = target[version[m]]] /\ config' = [config EXCEPT ![m] = Shared]
        /\ UNCHANGED <<job, vars, again, userspace, asked>> /\ same
    BY <1>3 DEF ApplyShared, Stage, written, source, Shared
  <2>2. others /\ jobs
    BY <1>0, <2>1 DEF Arrays
  <2>3. /\ stage'[m] = "variant" /\ config'[m] = Shared /\ Parsed' = Parsed /\ Shared' = Shared /\ Trusted' = Trusted
        /\ tree'[m] = target[version[m]]
    BY <1>0, <2>1 DEF Arrays, Parsed, Shared, Trusted
  <2>4. Trusted => tree'[m] = "good"
    BY <2>1, <2>3, GoodTree
  <2>5. goal
    BY <1>0, <2>1, <2>3, <2>4 DEF Taken
  <2> QED BY <2>1, <2>2, <2>5, BuildStep DEF written
<1>4. CASE ApplyVariant(m)
  <2>1. /\ stage[m] = "variant" /\ stage' = [stage EXCEPT ![m] = "userspace"]
        /\ config' = [config EXCEPT ![m] = Applied(conf[again[m].variant], config[m])]
        /\ UNCHANGED <<job, vars, again, tree, userspace, asked>> /\ same
    BY <1>4 DEF ApplyVariant, Stage, written, source
  <2>2. others /\ jobs
    BY <1>0, <2>1 DEF Arrays
  <2>3. /\ stage'[m] = "userspace" /\ config'[m] = Applied(conf[again[m].variant], config[m])
        /\ Parsed' = Parsed /\ Shared' = Shared /\ Trusted' = Trusted
    BY <1>0, <2>1 DEF Arrays, Parsed, Shared, Trusted
  <2>4. goal
    BY <1>0, <2>1, <2>3 DEF Taken
  <2> QED BY <2>1, <2>2, <2>4, BuildStep DEF written
<1>5. CASE TakeUserspace(m)
  <2>1. /\ stage[m] = "userspace" /\ stage' = [stage EXCEPT ![m] = "built"]
        /\ userspace' = [userspace EXCEPT ![m] = IF OnDisk(vars[m].rootfs) THEN None ELSE conf["userspace"]]
        /\ UNCHANGED <<job, vars, again, tree, config, asked>> /\ same
    BY <1>5 DEF TakeUserspace, Stage, written, source
  <2>2. others /\ jobs
    BY <1>0, <2>1 DEF Arrays
  <2>3. /\ stage'[m] = "built" /\ userspace'[m] = IF OnDisk(vars[m].rootfs) THEN None ELSE conf["userspace"]
        /\ Parsed' = Parsed /\ Shared' = Shared /\ Trusted' = Trusted
    BY <1>0, <2>1 DEF Arrays, Parsed, Shared, Trusted
  <2>4. goal
    BY <1>0, <2>1, <2>3 DEF Taken
  <2> QED BY <2>1, <2>2, <2>4, BuildStep DEF written
<1>6. CASE Fetching(m)
  <2>1. UNCHANGED <<job, stage, vars, again, tree, config, userspace, asked>> /\ same
    BY <1>6 DEF Fetching, PrepareStep, Look, FindArchive, OpenPartial, Transfer, Retry, Rename, OpenArchive,
                ReadArchive, Hashed, Publish, Stop, written, taken
  <2>2. others /\ jobs
    BY <2>1
  <2>3. goal
    BY <1>0, <2>1 DEF Taken, Parsed, Shared, Trusted
  <2> QED BY <2>1, <2>2, <2>3, BuildStep DEF written
<1>7. CASE Done(m)
  <2>1. /\ job' = [job EXCEPT ![m] = None] /\ stage' = [stage EXCEPT ![m] = None]
        /\ vars' = [vars EXCEPT ![m] = None] /\ again' = [again EXCEPT ![m] = None] /\ tree' = [tree EXCEPT ![m] = None]
        /\ config' = [config EXCEPT ![m] = <<>>] /\ userspace' = [userspace EXCEPT ![m] = None]
        /\ asked' = [asked EXCEPT ![m] = None] /\ same
    BY <1>7 DEF Done, Forget, Leave, written
  <2>2. others /\ jobs
    BY <1>0, <2>1 DEF Arrays
  <2>3. asked'[m] = None
    BY <1>0, <2>1 DEF Arrays
  <2> QED BY <2>1, <2>2, <2>3, BuildStep DEF written
<1> QED BY <1>1, <1>2, <1>3, <1>4, <1>5, <1>6, <1>7

-----------------------------------------------------------------------------
\* The inductive invariant.
PreparationInv == FilesInv /\ BuildInv

LEMMA PreparationInit == Init => PreparationInv
<1> SUFFICES ASSUME Init PROVE PreparationInv
  OBVIOUS
<1> USE DEF Init
<1>1. SourceInv
  BY InvInit
<1>2. Arrays
  BY DEF Arrays
<1>3. WriterInv
  BY PresetAssumption DEF WriterInv, Writes
<1>4. conf = [f \in Names |-> None]
  BY SixFiles
<1>5. ConfInv
  <2>1. conf["mk"] = None
    BY <1>4 DEF Names
  <2>2. Takes(conf) = Unconfigured
    BY <1>4, NotConfigured
  <2> QED BY <1>4, <2>1, <2>2 DEF ConfInv
<1>6. BuildInv
  BY DEF BuildInv
<1> QED BY <1>1, <1>2, <1>3, <1>5, <1>6 DEF PreparationInv, FilesInv

LEMMA PreparationStep == PreparationInv /\ [Next]_preparation => PreparationInv'
<1>1. ASSUME PreparationInv, Next PROVE PreparationInv'
  <2>1. SourceInv' /\ Arrays'
    BY <1>1, SourcesStep, ArraysStep DEF PreparationInv, FilesInv
  <2>2. PICK m \in Makes :
        \/ \E p \in Presets : Configure(m, p)
        \/ CleanConfig(m) \/ Empty(m) \/ Write(m) \/ Unlink(m) \/ Cut(m)
        \/ Build(m) \/ BuildAgain(m) \/ ApplyShared(m) \/ ApplyVariant(m) \/ TakeUserspace(m)
        \/ Fetching(m) \/ Done(m)
    BY <1>1 DEF Next
  <2>3. CASE Empty(m) \/ Write(m) \/ Unlink(m)
    BY <1>1, <2>1, <2>3, EmptyStep, FileStep DEF PreparationInv, FilesInv
  <2>4. CASE (\E p \in Presets : Configure(m, p)) \/ CleanConfig(m) \/ Cut(m)
    BY <1>1, <2>1, <2>4, GoalStep DEF PreparationInv, FilesInv
  <2>5. CASE Build(m) \/ BuildAgain(m) \/ ApplyShared(m) \/ ApplyVariant(m) \/ TakeUserspace(m) \/ Fetching(m) \/ Done(m)
    BY <1>1, <2>1, <2>5, BuildsStep DEF PreparationInv, FilesInv
  <2> QED BY <2>2, <2>3, <2>4, <2>5
<1>2. ASSUME PreparationInv, UNCHANGED preparation PROVE PreparationInv'
  <2>1. SourceInv'
    BY <1>2, InvStutter DEF PreparationInv, FilesInv, preparation
  <2>2. Arrays' /\ WriterInv' /\ ConfInv'
    BY <1>2 DEF PreparationInv, FilesInv, preparation, written, taken, Arrays, WriterInv, Writes, ConfInv, Takes
  <2>3. BuildInv'
    BY <1>2 DEF PreparationInv, preparation, written, taken, source, BuildInv, Taken, Parsed, Shared, Trusted
  <2> QED BY <2>1, <2>2, <2>3 DEF PreparationInv, FilesInv
<1> QED BY <1>1, <1>2

\* The makes of any number of builds prepare sources as prepare-linux.py does, for
\* versions of presets or the Makefile's own (Makefile, goals linux, build and
\* configure_kernel).
THEOREM PreparationImplementsSources == Spec => ImplementsSources
<1>1. Init => SourceInit
  BY DEF Init
<1>2. ASSUME PreparationInv, [Next]_preparation PROVE [SourceNext]_source
  <2>1. ASSUME NEW m \in Makes, Build(m) \/ BuildAgain(m) PROVE SourceNext
    BY <1>2, <2>1, ParsesVersion DEF PreparationInv, FilesInv, Build, BuildAgain, SourceNext
  <2>2. ASSUME NEW m \in Makes, Fetching(m) \/ Done(m) PROVE SourceNext
    BY <2>2 DEF Fetching, Done, SourceNext
  <2>3. ASSUME NEW m \in Makes,
               \/ \E p \in Presets : Configure(m, p)
               \/ CleanConfig(m) \/ Empty(m) \/ Write(m) \/ Unlink(m) \/ Cut(m)
               \/ ApplyShared(m) \/ ApplyVariant(m) \/ TakeUserspace(m)
        PROVE  UNCHANGED source
    BY <2>3 DEF Configure, CleanConfig, Disturb, Empty, Write, Unlink, Advance, Cut, ApplyShared, ApplyVariant,
                TakeUserspace, preparation
  <2>4. CASE UNCHANGED preparation
    BY <2>4 DEF preparation
  <2> QED BY <1>2, <2>1, <2>2, <2>3, <2>4 DEF Next
<1> QED BY <1>1, <1>2, PreparationInit, PreparationStep, PTL DEF Spec, ImplementsSources, SourceSpec

\* So what is true of prepare-linux.py alone is true of it in builds: what they
\* extract is verified (scripts/prepare-linux.py).
THEOREM SourcesCorrect == Spec => []SourceVerified
BY PreparationImplementsSources, SourceCorrect, PTL DEF ImplementsSources

\* For any presets, any number of makes and any goals cut short: a build that
\* nothing disturbed is of one preset as a whole, as long as makes run in turn or
\* the mirror is honest (scripts/gen-config.py, goals configure and build).
THEOREM BuildCorrect ==
  ASSUME \A w \in Worlds : w.serial \/ w.honest
  PROVE  Spec => []OnePreset
<1>1. PreparationInv => OnePreset
  <2> SUFFICES ASSUME PreparationInv, NEW m \in Makes, stage[m] = "built", asked[m] # None
               PROVE  asked[m] = [vars |-> vars[m], again |-> again[m], tree |-> tree[m],
                                  config |-> config[m], userspace |-> userspace[m]]
    BY DEF OnePreset
  <2>1. Trusted
    BY DEF PreparationInv, FilesInv, SourceInv, SourceTypeOK, Trusted
  <2>2. asked[m] = wanted /\ Taken(m) /\ wanted = Takes(conf)
    BY DEF PreparationInv, FilesInv, ConfInv, BuildInv
  <2>3. /\ vars[m] = Parsed /\ again[m] = Parsed /\ tree[m] = "good"
        /\ config[m] = Applied(conf[Parsed.variant], Shared)
        /\ userspace[m] = IF OnDisk(Parsed.rootfs) THEN None ELSE conf["userspace"]
    BY <2>1, <2>2 DEF Taken
  <2>4. Takes(conf) = Whole(vars[m], config[m], userspace[m])
    BY <2>3 DEF Takes, Parsed, Shared
  <2> QED BY <2>2, <2>3, <2>4 DEF Whole
<1> QED BY PreparationInit, PreparationStep, <1>1, PTL DEF Spec
-----------------------------------------------------------------------------
\* What every make is at agrees with what it has of the goal it was given.
Job(m) ==
  /\ (job[m] = "configure") = (preset[m] # None) /\ (job[m] \in Writing) = (next[m] # 0)
  /\ (job[m] = "build") = (stage[m] # None) /\ (at[m] # "idle") = (job[m] = "build")

JobInv ==
  /\ job \in [Makes -> Writing \cup {"build", None}] /\ next \in [Makes -> 0..6]
  /\ \A m \in Makes : Job(m)

\* The configuration is complete unless something writes it or was cut short.
CutInv ==
  /\ cut \in 0..world.cuts
  /\ (wanted = None) = (cut > 0 \/ \E m \in Makes : next[m] # 0)

JobsInv == PreparationInv /\ JobInv /\ CutInv

LEMMA NotNone ==
  /\ None \notin Writing /\ None # "build" /\ None \notin Stages /\ None \notin Presets
  /\ "build" \notin Writing /\ None # Unconfigured /\ \A p \in Sound : None # Requested(p)
  /\ \A w \in Worlds : w.cuts \in Nat
BY PresetAssumption DEF Sound, Writing

LEMMA JobsInit == Init => JobInv /\ CutInv
<1> SUFFICES ASSUME Init PROVE JobInv /\ CutInv
  OBVIOUS
<1>1. JobInv
  BY NotNone DEF Init, SourceInit, JobInv, Job, Writing
<1>2. CutInv
  BY NotNone DEF Init, SourceInit, CutInv
<1> QED BY <1>1, <1>2

\* A make that only it concerns: what is true of it then is what there is to show.
LEMMA OneJob ==
  ASSUME JobInv, NEW m \in Makes, job' \in [Makes -> Writing \cup {"build", None}], next' \in [Makes -> 0..6],
         \A n \in Makes \ {m} : /\ job'[n] = job[n] /\ preset'[n] = preset[n] /\ next'[n] = next[n]
                                /\ stage'[n] = stage[n] /\ at'[n] = at[n],
         Job(m)'
  PROVE  JobInv'
<1>1. ASSUME NEW n \in Makes \ {m} PROVE Job(n)'
  BY <1>1 DEF JobInv, Job
<1> QED BY <1>1 DEF JobInv

\* The goals that write the configuration.
LEMMA WritersJobs ==
  ASSUME JobsInv, NEW m \in Makes,
         \/ \E p \in Presets : Configure(m, p)
         \/ CleanConfig(m) \/ Empty(m) \/ Write(m) \/ Unlink(m) \/ Cut(m)
  PROVE  JobInv' /\ CutInv'
<1>0. /\ JobInv /\ CutInv /\ Arrays /\ WriterInv /\ Job(m) /\ world.cuts \in Nat /\ cut \in Nat
      /\ job \in [Makes -> Writing \cup {"build", None}] /\ next \in [Makes -> 0..6] /\ DOMAIN preset = Makes
  <2>1. JobInv /\ CutInv /\ Arrays /\ WriterInv /\ world \in Worlds
    BY DEF JobsInv, PreparationInv, FilesInv, SourceInv, SourceTypeOK
  <2>2. world.cuts \in Nat
    BY <2>1, NotNone
  <2> QED BY <2>1, <2>2 DEF JobInv, CutInv, Arrays
<1>1. ASSUME NEW j \in Writing, NEW p, (j = "configure") = (p # None), Disturb(m, j, p), MayWrite(m)
      PROVE  JobInv' /\ CutInv'
  <2>1. /\ job' = [job EXCEPT ![m] = j] /\ preset' = [preset EXCEPT ![m] = p] /\ next' = [next EXCEPT ![m] = 1]
        /\ wanted' = None /\ cut' = cut /\ at' = at /\ stage' = stage /\ world' = world /\ job[m] = None
    BY <1>1 DEF Disturb, source, MayWrite, MayStart
  <2>2. job' \in [Makes -> Writing \cup {"build", None}] /\ next' \in [Makes -> 0..6]
    BY <1>0, <2>1
  <2>3. job'[m] = j /\ preset'[m] = p /\ next'[m] = 1
    BY <1>0, <2>1
  <2>4. Job(m)'
    BY <1>0, <1>1, <2>1, <2>3, NotNone DEF Job
  <2>5. JobInv'
    BY <1>0, <2>1, <2>2, <2>4, OneJob
  <2>6. CutInv'
    BY <1>0, <2>1, <2>3 DEF CutInv
  <2> QED BY <2>5, <2>6
<1>2. ASSUME NEW p \in Presets, Configure(m, p) PROVE JobInv' /\ CutInv'
  <2>1. CASE Refused(p)
    <3>1. UNCHANGED <<job, preset, next, stage, at, wanted, cut, world>>
      BY <1>2, <2>1 DEF Configure, preparation, written, source
    <3> QED BY <1>0, <3>1 DEF JobInv, Job, CutInv
  <2>2. CASE ~Refused(p)
    <3>1. Disturb(m, "configure", p) /\ MayWrite(m) /\ "configure" \in Writing /\ p # None
      BY <1>2, <2>2, NotNone DEF Configure, Writing
    <3> QED BY <1>1, <3>1
  <2> QED BY <2>1, <2>2
<1>3. CASE CleanConfig(m)
  <2>1. Disturb(m, "clean_config", None) /\ MayWrite(m) /\ "clean_config" \in Writing /\ "clean_config" # "configure"
    BY <1>3 DEF CleanConfig, Writing
  <2> QED BY <1>1, <2>1
<1>4. CASE Empty(m)
  <2>1. UNCHANGED <<job, preset, next, stage, at, wanted, cut, world>>
    BY <1>4 DEF Empty, source
  <2> QED BY <1>0, <2>1 DEF JobInv, Job, CutInv
\* The goal is over, with what it leaves wanted, or was cut short.
<1>5. ASSUME Writes(m), job' = [job EXCEPT ![m] = None], preset' = [preset EXCEPT ![m] = None],
             next' = [next EXCEPT ![m] = 0], UNCHANGED <<stage, at>>
      PROVE  JobInv' /\ \A n \in Makes : next'[n] = 0
  <2>1. job' \in [Makes -> Writing \cup {"build", None}] /\ next' \in [Makes -> 0..6]
    BY <1>0, <1>5
  <2>2. job'[m] = None /\ preset'[m] = None /\ next'[m] = 0
    BY <1>0, <1>5
  <2>3. Job(m)'
    BY <1>0, <1>5, <2>2, NotNone DEF Job, Writes, Writing
  <2>4. JobInv'
    BY <1>0, <1>5, <2>1, <2>3, OneJob
  <2>5. ASSUME NEW n \in Makes \ {m} PROVE next'[n] = 0
    <3>1. ~Writes(n) /\ Job(n)
      BY <1>0, <1>5, <2>5 DEF WriterInv, JobInv
    <3> QED BY <1>0, <1>5, <2>5, <3>1 DEF Job, Writes
  <2> QED BY <2>2, <2>4, <2>5
<1>6. ASSUME NEW c, Advance(m, c), c # None PROVE JobInv' /\ CutInv'
  <2>1. Writes(m) /\ next[m] \in 1..6 /\ wanted = None /\ UNCHANGED <<stage, at, world>>
    BY <1>0, <1>6 DEF Advance, WriterInv, Writes, source
  <2>2. CASE next[m] < Len(Outputs)
    <3>1. next' = [next EXCEPT ![m] = @ + 1] /\ UNCHANGED <<job, preset, wanted, cut>> /\ next[m] < 6
      BY <1>6, <2>2, SixFiles DEF Advance
    <3>2. next'[m] = next[m] + 1 /\ next' \in [Makes -> 0..6]
      BY <1>0, <2>1, <3>1
    <3>3. Job(m)'
      BY <1>0, <2>1, <3>1, <3>2 DEF Job
    <3>4. JobInv'
      BY <1>0, <2>1, <3>1, <3>2, <3>3, OneJob
    <3>5. CutInv'
      BY <1>0, <2>1, <3>1, <3>2 DEF CutInv
    <3> QED BY <3>4, <3>5
  <2>3. CASE ~(next[m] < Len(Outputs))
    <3>1. /\ next' = [next EXCEPT ![m] = 0] /\ job' = [job EXCEPT ![m] = None]
          /\ preset' = [preset EXCEPT ![m] = None] /\ wanted' = c /\ cut' = 0
      BY <1>6, <2>3 DEF Advance
    <3>2. JobInv' /\ \A n \in Makes : next'[n] = 0
      BY <1>5, <2>1, <3>1
    <3>3. CutInv'
      BY <1>0, <1>6, <2>1, <3>1, <3>2 DEF CutInv
    <3> QED BY <3>2, <3>3
  <2> QED BY <2>2, <2>3
<1>7. CASE Write(m) \/ Unlink(m)
  <2>1. Writes(m) /\ (job[m] = "configure" => preset[m] \in Sound) /\ Completed(m) # None
    BY <1>0, <1>7, NotNone DEF Write, Unlink, WriterInv, Writes, Completed
  <2>2. Advance(m, Completed(m))
    BY <1>7 DEF Write, Unlink, Completed, Present
  <2> QED BY <1>6, <2>1, <2>2
<1>8. CASE Cut(m)
  <2>1. /\ Writes(m) /\ cut < world.cuts /\ cut' = cut + 1 /\ UNCHANGED <<wanted, stage, at, world>>
        /\ job' = [job EXCEPT ![m] = None] /\ preset' = [preset EXCEPT ![m] = None] /\ next' = [next EXCEPT ![m] = 0]
    BY <1>8 DEF Cut, Writes, source
  <2>2. JobInv' /\ wanted = None
    BY <1>0, <1>5, <2>1 DEF WriterInv
  <2>3. CutInv'
    BY <1>0, <2>1, <2>2 DEF CutInv
  <2> QED BY <2>2, <2>3
<1> QED BY <1>2, <1>3, <1>4, <1>7, <1>8

\* A build stays in the middle of it from its first make to its end.
LEMMA BuildsJobs ==
  ASSUME JobsInv, NEW m \in Makes,
         \/ Build(m) \/ BuildAgain(m) \/ ApplyShared(m) \/ ApplyVariant(m) \/ TakeUserspace(m)
         \/ Fetching(m) \/ Done(m)
  PROVE  JobInv' /\ CutInv'
<1>0. /\ JobInv /\ CutInv /\ Arrays /\ Job(m) /\ DOMAIN at = Makes /\ DOMAIN stage = Makes /\ DOMAIN job = Makes
      /\ job \in [Makes -> Writing \cup {"build", None}] /\ next \in [Makes -> 0..6]
  BY DEF JobsInv, PreparationInv, FilesInv, SourceInv, SourceTypeOK, Arrays, JobInv
<1>1. UNCHANGED <<preset, next, wanted, cut, world>>
  BY DEF Build, BuildAgain, Prepare, ApplyShared, ApplyVariant, TakeUserspace, Fetching, PrepareStep, Look, FindArchive,
         OpenPartial, Transfer, Retry, Rename, OpenArchive, ReadArchive, Hashed, Publish, Stop, Done, Forget, Leave, written, source
<1>2. CutInv'
  BY <1>0, <1>1 DEF CutInv
<1>3. CASE Build(m)
  <2>1. /\ job[m] = None /\ job' = [job EXCEPT ![m] = "build"] /\ stage' = [stage EXCEPT ![m] = "again"]
        /\ at' = [at EXCEPT ![m] = "look"]
    BY <1>3 DEF Build, MayStart, Prepare
  <2>2. job'[m] = "build" /\ stage'[m] = "again" /\ at'[m] = "look" /\ job' \in [Makes -> Writing \cup {"build", None}]
    BY <1>0, <2>1
  <2>3. Job(m)'
    BY <1>0, <1>1, <2>1, <2>2, NotNone DEF Job, Stages, Writing
  <2> QED BY <1>0, <1>1, <1>2, <2>1, <2>2, <2>3, OneJob
<1>4. ASSUME NEW s \in Stages, job[m] = "build", stage' = [stage EXCEPT ![m] = s], job' = job,
             \A n \in Makes \ {m} : at'[n] = at[n], at'[m] # "idle"
      PROVE  JobInv'
  <2>1. stage'[m] = s /\ s # None
    BY <1>0, <1>4, NotNone
  <2>2. Job(m)'
    BY <1>0, <1>1, <1>4, <2>1 DEF Job
  <2> QED BY <1>0, <1>1, <1>4, <2>2, OneJob
<1>5. CASE BuildAgain(m)
  <2>1. /\ job[m] = "build" /\ stage' = [stage EXCEPT ![m] = "shared"] /\ job' = job /\ at' = [at EXCEPT ![m] = "look"]
        /\ "shared" \in Stages
    BY <1>5 DEF BuildAgain, Stage, Prepare, Stages
  <2> QED BY <1>0, <1>2, <1>4, <2>1
<1>6. CASE ApplyShared(m) \/ ApplyVariant(m) \/ TakeUserspace(m)
  <2>1. PICK s \in Stages : job[m] = "build" /\ stage' = [stage EXCEPT ![m] = s]
    BY <1>6 DEF ApplyShared, ApplyVariant, TakeUserspace, Stage, Stages
  <2>2. job' = job /\ at' = at /\ at[m] = "prepared"
    BY <1>6 DEF ApplyShared, ApplyVariant, TakeUserspace, source
  <2> QED BY <1>2, <1>4, <2>1, <2>2
<1>7. CASE Fetching(m)
  <2>1. job' = job /\ stage' = stage
    BY <1>7 DEF Fetching
  <2>2. at[m] # "idle" /\ \A n \in Makes \ {m} : at'[n] = at[n]
    BY <1>0, <1>7 DEF Fetching, PrepareStep, Look, FindArchive, OpenPartial, Transfer, Retry, Rename, OpenArchive, ReadArchive,
                Hashed, Publish, Stop, Move, Working
  <2>3. at'[m] # "idle"
    BY <1>0, <1>7 DEF Fetching, PrepareStep, Look, FindArchive, OpenPartial, Transfer, Retry, Rename, OpenArchive, ReadArchive,
                Hashed, Publish, Stop, Move, Working
  <2>4. Job(m)'
    BY <1>0, <1>1, <2>1, <2>2, <2>3 DEF Job
  <2> QED BY <1>0, <1>1, <1>2, <2>1, <2>2, <2>4, OneJob
<1>8. CASE Done(m)
  <2>1. /\ at[m] \in Over /\ at' = [at EXCEPT ![m] = "idle"]
        /\ job' = [job EXCEPT ![m] = None] /\ stage' = [stage EXCEPT ![m] = None]
    BY <1>8 DEF Done, Forget, Leave
  <2>2. job'[m] = None /\ stage'[m] = None /\ at'[m] = "idle" /\ job' \in [Makes -> Writing \cup {"build", None}]
    BY <1>0, <2>1
  <2>3. job[m] = "build"
    BY <1>0, <2>1 DEF Job, Over
  <2>4. Job(m)'
    BY <1>0, <1>1, <2>2, <2>3, NotNone DEF Job, Writing
  <2> QED BY <1>0, <1>1, <1>2, <2>1, <2>2, <2>4, OneJob
<1> QED BY <1>3, <1>5, <1>6, <1>7, <1>8

LEMMA JobsStep == JobsInv /\ [Next]_preparation => JobsInv'
<1>1. ASSUME JobsInv, Next PROVE JobInv' /\ CutInv'
  <2>1. PICK m \in Makes :
        \/ \E p \in Presets : Configure(m, p)
        \/ CleanConfig(m) \/ Empty(m) \/ Write(m) \/ Unlink(m) \/ Cut(m)
        \/ Build(m) \/ BuildAgain(m) \/ ApplyShared(m) \/ ApplyVariant(m) \/ TakeUserspace(m)
        \/ Fetching(m) \/ Done(m)
    BY <1>1 DEF Next
  <2> QED BY <1>1, <2>1, WritersJobs, BuildsJobs
<1>2. ASSUME JobsInv, UNCHANGED preparation PROVE JobInv' /\ CutInv'
  BY <1>2 DEF JobsInv, JobInv, Job, CutInv, preparation, written, source
<1> QED BY <1>1, <1>2, PreparationStep DEF JobsInv

\* For any presets, makes and worlds: a make that writes the configuration has a
\* preset if it configures one, and a file it is at; one that builds is at a
\* stage and the only kind that prepares sources; and the configuration is that
\* of a completed goal unless a goal is writing it or was cut short (Makefile,
\* goals configure, clean_config and build).
THEOREM PreparationTyped == Spec => []TypeOK
<1>1. JobsInv => TypeOK
  BY SixFiles DEF JobsInv, PreparationInv, FilesInv, SourceInv, JobInv, Job, CutInv, TypeOK
<1>2. Init => JobsInv
  BY JobsInit, PreparationInit DEF JobsInv
<1> QED BY <1>1, <1>2, JobsStep, PTL DEF Spec
=============================================================================
