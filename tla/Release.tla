------------------------------ MODULE Release ------------------------------
(***************************************************************************)
(* The release candidate in DIST_DIR: package_all and package (scripts     *)
(* build-release.py, package-artifacts.py, package-distro.py), test_all    *)
(* (test-packages.py), release_ready and github_release                    *)
(* (check-release.py and the Makefile).                                    *)
(*                                                                         *)
(* Three goals act on the directory: the packager, the tester and the      *)
(* gate.  A developer edits the sources meanwhile; a goal may be killed.   *)
(* A file is its content, a number, 0 when it is absent, and a digest is   *)
(* what it is the digest of; an edit may be taken back.  An archive is     *)
(* what the build can have read of each input, the inputs its manifest     *)
(* records, and a serial number: manifests carry the time of creation, so  *)
(* no two archives are the same.  gedited, and the field edited of what is *)
(* announced and published, record what was edited; no step depends on     *)
(* them.                                                                   *)
(***************************************************************************)
EXTENDS Naturals

CONSTANTS
  Files,      \* the source files the pipeline reads
  Presets,    \* those that are configs/*.toml
  Variants,   \* the variants of each preset
  Version,    \* the kernel version that each content of a preset names
  Inputs,     \* the build inputs of each variant, besides the preset
  Runner,     \* test-packages.py and the modules it imports
  Listed,     \* the files check-release.py lists in the readiness record
  Optional,   \* files a developer may add: a payload source, an overlay file
  Editable,   \* the files a developer edits
  MaxRev, MaxEdits, MaxBuilds,   \* bounds on the contents of a file, edits, archives
  CrashPoints, \* locations at which a goal may stop
  OneGoal,    \* one goal at a time
  None

ASSUME SourceAssumption ==
  /\ Presets \subseteq Listed /\ Runner \subseteq Listed
  /\ Listed \cup Runner \cup Optional \cup Editable \subseteq Files
  /\ Presets \cap Optional = {} /\ Runner \cap Optional = {}
  /\ \A f \in Presets : \A v \in Variants[f] : Inputs[v] \subseteq Files
  /\ MaxRev \in Nat \ {0} /\ MaxEdits \in Nat /\ MaxBuilds \in Nat

VARIABLES
  src,        \* content of each source file
  edits,      \* edits so far
  clock,      \* archives made so far
  dir,        \* dist/<name>: the package its manifest.json describes
  arch,       \* dist/<name>.tar.gz
  results,    \* dist/test-results.json
  sums, notes, ready,   \* dist/SHA256SUMS, release-notes.md, release-ready.json
  published,  \* what the GitHub release holds
  pc,         \* location of each goal
  plan, resume, item, name, cand,   \* locals of the packager
  trunner, rows,                    \* of the tester
  gmode, gfor, gtodo, gtests, gsums, grecord,       \* of the gate
  gedited     \* files edited while the gate makes its checks

dist == <<dir, arch, results, sums, notes, ready>>
packager == <<plan, resume, item, name, cand>>
tester == <<trunner, rows>>
gate == <<gmode, gfor, gtodo, gtests, gsums, grecord, gedited>>
vars == <<src, edits, clock, dist, published, pc, packager, tester, gate>>

Goals == {"package", "test", "gate"}

\* What a set of files holds, those that are absent left out.
Snapshot(F) == [f \in {g \in F : src[g] # 0} |-> src[f]]

\* The package names of the presets in s.
Matrix(s) == UNION {{[preset |-> f, variant |-> v, version |-> Version[s[f]]] : v \in Variants[f]} :
                    f \in Presets \cap DOMAIN s}
Wanted == Matrix(src)

Names == {[preset |-> f, variant |-> v, version |-> Version[r]] :
            f \in Presets, v \in UNION {Variants[f] : f \in Presets}, r \in 1..MaxRev}
Existing == {n \in Names : arch[n] # None}

InputsOf(n) == Inputs[n.variant] \cup {n.preset}

\* The recorded inputs are those the files have now.
StillMatch(a) == \A f \in DOMAIN a.inputs : src[f] = a.inputs[f]


Goto(g, from, to) == pc[g] = from /\ pc' = [pc EXCEPT ![g] = to]

\* README.md: "Do not run another configuration or build" during package_all.
MayStart(g) ==
  /\ pc[g] = "idle"
  /\ OneGoal => \A h \in Goals : pc[h] = "idle"

-----------------------------------------------------------------------------
Init ==
  /\ src = [f \in Files |-> IF f \in Optional THEN 0 ELSE 1]
  /\ edits = 0 /\ clock = 0
  /\ dir = [n \in Names |-> None] /\ arch = [n \in Names |-> None]
  /\ results = None /\ sums = None /\ notes = None /\ ready = None /\ published = None
  /\ pc = [g \in Goals |-> "idle"]
  /\ plan = {} /\ resume = FALSE /\ item = None /\ name = None /\ cand = None
  /\ trunner = None /\ rows = <<>>
  /\ gmode = None /\ gfor = {} /\ gtodo = {} /\ gtests = None /\ gsums = <<>>
  /\ grecord = None /\ gedited = {}

\* The package that is built can have read the new content of f too.
ReadLater(f, r) ==
  [cand EXCEPT !.made =
     [g \in DOMAIN cand.made |-> IF g = f THEN cand.made[g] \cup {r} ELSE cand.made[g]]]

\* A developer edits a source file, adds or removes an optional one, or takes an
\* edit back.
Edit(f) ==
  \E r \in IF f \in Optional THEN 0..MaxRev ELSE 1..MaxRev :
    /\ r # src[f] /\ edits < MaxEdits
    /\ edits' = edits + 1
    /\ src' = [src EXCEPT ![f] = r]
    /\ cand' = IF pc["package"] = "record" THEN ReadLater(f, r) ELSE cand
    /\ gedited' = IF pc["gate"] = "check" THEN gedited \cup {f} ELSE gedited
    /\ UNCHANGED <<clock, dist, published, pc, plan, resume, item, name, tester,
                   gmode, gfor, gtodo, gtests, gsums, grecord>>

-----------------------------------------------------------------------------
\* package_all takes the whole matrix, package the selected preset.
StartPackaging(S, r) ==
  /\ MayStart("package")
  /\ S = Wanted \/ (~r /\ \E n \in Wanted : S = {n})
  /\ pc' = [pc EXCEPT !["package"] = "next"]
  /\ plan' = S /\ resume' = r
  /\ UNCHANGED <<src, edits, clock, dist, published, item, name, cand, tester, gate>>

\* RELEASE_RESUME=1: the package is skipped if its directory's manifest records
\* inputs that are the current ones and its archive exists.
Reuse(n) ==
  /\ pc["package"] = "next" /\ n \in plan
  /\ resume /\ arch[n] # None /\ dir[n] # None /\ StillMatch(dir[n])
  /\ plan' = plan \ {n}
  /\ UNCHANGED <<src, edits, clock, dist, published, pc, resume, item, name, cand, tester, gate>>

\* `make configure` and the builds it makes possible: the preset is read again,
\* and names the package.
Compile(n) ==
  /\ Goto("package", "next", "record") /\ n \in plan
  /\ ~(resume /\ arch[n] # None /\ dir[n] # None /\ StillMatch(dir[n]))
  /\ item' = n
  /\ name' = [preset |-> n.preset, variant |-> n.variant, version |-> Version[src[n.preset]]]
  /\ cand' = [made |-> [f \in InputsOf(n) |-> {src[f]}], inputs |-> None, serial |-> clock]
  /\ UNCHANGED <<src, edits, clock, dist, published, plan, resume, tester, gate>>

\* package-artifacts.py hashes the build inputs once everything is built.
Record ==
  /\ Goto("package", "record", "supersede")
  /\ clock < MaxBuilds
  /\ clock' = clock + 1
  /\ cand' = [made |-> cand.made, inputs |-> Snapshot(InputsOf(name)), serial |-> clock]
  /\ UNCHANGED <<src, edits, dist, published, plan, resume, item, name, tester, gate>>

Supersede ==
  /\ Goto("package", "supersede", "move")
  /\ dir' = [dir EXCEPT ![name] = None]
  /\ UNCHANGED <<src, edits, clock, arch, results, sums, notes, ready, published, packager, tester, gate>>

\* Mutant: an archive that exists is not replaced.
MoveOnly ==
  /\ Goto("package", "move", IF arch[name] = None THEN "replace" ELSE "report")
  /\ dir' = [dir EXCEPT ![name] = cand]
  /\ UNCHANGED <<src, edits, clock, arch, results, sums, notes, ready, published, packager, tester, gate>>

Move ==
  /\ Goto("package", "move", "replace")
  /\ dir' = [dir EXCEPT ![name] = cand]
  /\ UNCHANGED <<src, edits, clock, arch, results, sums, notes, ready, published, packager, tester, gate>>

Replace ==
  /\ Goto("package", "replace", "report")
  /\ arch' = [arch EXCEPT ![name] = cand]
  /\ UNCHANGED <<src, edits, clock, dir, results, sums, notes, ready, published, packager, tester, gate>>

StopPackaging ==
  /\ pc' = [pc EXCEPT !["package"] = "idle"]
  /\ plan' = {} /\ resume' = FALSE /\ item' = None /\ name' = None /\ cand' = None

\* The archive of the planned name is hashed; if it does not exist, build-release
\* ends with an exception.
Report ==
  /\ pc["package"] = "report"
  /\ \/ /\ arch[item] # None
        /\ pc' = [pc EXCEPT !["package"] = "next"]
        /\ plan' = plan \ {item}
        /\ item' = None /\ name' = None /\ cand' = None /\ UNCHANGED resume
     \/ arch[item] = None /\ StopPackaging
  /\ UNCHANGED <<src, edits, clock, dist, published, tester, gate>>

FinishPackaging ==
  /\ pc["package"] = "next" /\ plan = {}
  /\ StopPackaging
  /\ UNCHANGED <<src, edits, clock, dist, published, tester, gate>>

-----------------------------------------------------------------------------
\* An archive's test: its digest, the content that was extracted and booted.
Row(phase, sha, tried, pass) == [phase |-> phase, sha |-> sha, tried |-> tried, pass |-> pass]

\* test_all takes every archive, a focused rerun those that match a pattern.
StartTests(S) ==
  /\ MayStart("test")
  /\ S # {}
  /\ pc' = [pc EXCEPT !["test"] = "run"]
  /\ trunner' = Snapshot(Runner)
  /\ rows' = [n \in S |-> Row("hash", None, None, FALSE)]
  /\ UNCHANGED <<src, edits, clock, dist, published, packager, gate>>

\* One step of the test of one archive; the pool interleaves them.
TestStep(n, phase, row) ==
  /\ pc["test"] = "run" /\ n \in DOMAIN rows /\ rows[n].phase = phase
  /\ rows' = [rows EXCEPT ![n] = row]
  /\ UNCHANGED <<src, edits, clock, dist, published, pc, trunner, packager, gate>>

HashArchive(n) == TestStep(n, "hash", Row("extract", arch[n], None, FALSE))

Extract(n) == TestStep(n, "extract", Row("boot", rows[n].sha, arch[n], FALSE))

\* Mutant: the digest is not taken again.
BootOnce(n) == \E ok \in BOOLEAN : TestStep(n, "boot", Row("end", rows[n].sha, rows[n].tried, ok))

\* The audit and the boots succeed or not; the archive must still be the same.
Boot(n) ==
  \E ok \in BOOLEAN :
    TestStep(n, "boot", Row("end", rows[n].sha, rows[n].tried, ok /\ arch[n] = rows[n].sha))

StopTests == pc' = [pc EXCEPT !["test"] = "idle"] /\ trunner' = None /\ rows' = <<>>

\* Mutant: the results so far are written where the gate looks for them.
WriteResultsSoFar ==
  /\ pc["test"] = "run"
  /\ results' = [runner |-> trunner, rows |-> rows]
  /\ UNCHANGED <<src, edits, clock, dir, arch, sums, notes, ready, published, pc, packager, tester, gate>>

WriteResults ==
  /\ pc["test"] = "run" /\ \A n \in DOMAIN rows : rows[n].phase = "end"
  /\ results' = [runner |-> trunner, rows |-> rows]
  /\ StopTests
  /\ UNCHANGED <<src, edits, clock, dir, arch, sums, notes, ready, published, packager, gate>>

-----------------------------------------------------------------------------
\* The test run as a whole: current runner, every archive tested and passed.
TestsAccepted ==
  /\ results.runner = Snapshot(Runner)
  /\ DOMAIN results.rows = Wanted
  /\ \A n \in DOMAIN results.rows : results.rows[n].pass

StopGate ==
  /\ pc' = [pc EXCEPT !["gate"] = "idle"]
  /\ gmode' = None /\ gfor' = {} /\ gtodo' = {} /\ gtests' = None /\ gsums' = <<>>
  /\ grecord' = None /\ gedited' = {}

\* check-release.py, with --write for release_ready and without for github_release;
\* its first assertions leave no trace when they fail.
StartGate(mode) ==
  /\ MayStart("gate")
  /\ Existing = Wanted
  /\ results # None /\ TestsAccepted
  /\ pc' = [pc EXCEPT !["gate"] = "check"]
  /\ gmode' = mode /\ gfor' = Wanted /\ gtodo' = Wanted /\ gtests' = results
  /\ gsums' = <<>> /\ grecord' = None /\ gedited' = {}
  /\ UNCHANGED <<src, edits, clock, dist, published, packager, tester>>

\* Mutant: the archive's digest is not compared with the tested one.
PassesUntested(n) ==
  /\ Version[arch[n].inputs[n.preset]] = n.version
  /\ StillMatch(arch[n])

\* Mutant: the recorded inputs are not compared with the sources.
PassesUnchecked(n) == gtests.rows[n].sha = arch[n]

Passes(n) ==
  /\ gtests.rows[n].pass /\ gtests.rows[n].sha = arch[n]
  /\ Version[arch[n].inputs[n.preset]] = n.version
  /\ StillMatch(arch[n])

CheckArchive(n) ==
  /\ pc["gate"] = "check" /\ n \in gtodo
  /\ Passes(n)
  /\ gtodo' = gtodo \ {n}
  /\ gsums' = [m \in DOMAIN gsums \cup {n} |-> IF m = n THEN arch[n] ELSE gsums[m]]
  /\ UNCHANGED <<src, edits, clock, dist, published, pc, packager, tester, gmode, gfor, gtests, grecord, gedited>>

RefuseArchive(n) ==
  /\ pc["gate"] = "check" /\ n \in gtodo
  /\ ~Passes(n)
  /\ StopGate
  /\ UNCHANGED <<src, edits, clock, dist, published, packager, tester>>

\* The readiness record: the digests, and the sources and results as they are now.
Seal ==
  /\ pc["gate"] = "check" /\ gtodo = {}
  /\ pc' = [pc EXCEPT !["gate"] = IF gmode = "write" THEN "sums" ELSE "confirm"]
  /\ grecord' = [archives |-> gsums, tests |-> results, source |-> Snapshot(Listed)]
  /\ UNCHANGED <<src, edits, clock, dist, published, packager, tester, gmode, gfor, gtodo, gtests, gsums, gedited>>

WriteSums ==
  /\ Goto("gate", "sums", "notes")
  /\ sums' = gsums
  /\ UNCHANGED <<src, edits, clock, dir, arch, results, notes, ready, published, packager, tester, gate>>

WriteNotes ==
  /\ Goto("gate", "notes", "ready")
  /\ notes' = gfor
  /\ UNCHANGED <<src, edits, clock, dir, arch, results, sums, ready, published, packager, tester, gate>>

WriteReady ==
  /\ pc["gate"] = "ready"
  /\ ready' = [record |-> grecord, notes |-> notes, edited |-> gedited]
  /\ StopGate
  /\ UNCHANGED <<src, edits, clock, dir, arch, results, sums, notes, published, packager, tester>>

\* Mutant: the readiness record is not compared with a fresh one.
ConfirmedAlready == ready # None /\ sums = gsums /\ ready.notes = notes

Confirmed == ready # None /\ sums = gsums /\ ready.notes = notes /\ ready.record = grecord

\* Without --write the record on disk must be the one just computed.
Confirm ==
  /\ pc["gate"] = "confirm"
  /\ \/ Confirmed /\ pc' = [pc EXCEPT !["gate"] = "upload"] /\ UNCHANGED gate
     \/ ~Confirmed /\ StopGate
  /\ UNCHANGED <<src, edits, clock, dist, published, packager, tester>>

\* gh uploads what the directory holds by then.
Upload ==
  /\ pc["gate"] = "upload"
  /\ published' = [archives |-> [n \in Existing |-> arch[n]], sums |-> sums, notes |-> notes,
                   record |-> ready.record, tests |-> results,
                   edited |-> ready.edited \cap gedited]
  /\ StopGate
  /\ UNCHANGED <<src, edits, clock, dist, packager, tester>>

-----------------------------------------------------------------------------
\* A goal is killed, or a command it runs fails: what it wrote stays.
Crash(g) ==
  /\ pc[g] # "idle" /\ <<g, pc[g]>> \in CrashPoints
  /\ \/ g = "package" /\ StopPackaging /\ UNCHANGED <<tester, gate>>
     \/ g = "test" /\ StopTests /\ UNCHANGED <<packager, gate>>
     \/ g = "gate" /\ StopGate /\ UNCHANGED <<packager, tester>>
  /\ UNCHANGED <<src, edits, clock, dist, published>>

Package ==
  \/ \E S \in {Wanted} \cup {{n} : n \in Wanted}, r \in BOOLEAN : StartPackaging(S, r)
  \/ \E n \in Names : Reuse(n) \/ Compile(n)
  \/ Record \/ Supersede \/ Move \/ Replace \/ Report \/ FinishPackaging

Test ==
  \/ \E S \in SUBSET Existing : StartTests(S)
  \/ \E n \in Names : HashArchive(n) \/ Extract(n) \/ Boot(n)
  \/ WriteResults

Gate ==
  \/ \E mode \in {"write", "recheck"} : StartGate(mode)
  \/ \E n \in Names : CheckArchive(n) \/ RefuseArchive(n)
  \/ Seal \/ WriteSums \/ WriteNotes \/ WriteReady \/ Confirm \/ Upload

Next == (\E f \in Editable : Edit(f)) \/ Package \/ Test \/ Gate \/ (\E g \in Goals : Crash(g))

Spec == Init /\ [][Next]_vars

-----------------------------------------------------------------------------
Contents == UNION {[S -> 1..MaxRev] : S \in SUBSET Files}
Readings == UNION {[S -> SUBSET (0..MaxRev)] : S \in SUBSET Files}
Archives == [made : Readings, inputs : Contents, serial : Nat]
Rows == [phase : {"hash", "extract", "boot", "end"}, sha : Archives \cup {None},
         tried : Archives \cup {None}, pass : BOOLEAN]

\* Archives on disk are complete, and results are of ended tests.
TypeOK ==
  /\ src \in [Files -> 0..MaxRev]
  /\ clock \in 0..MaxBuilds
  /\ \A n \in Names : dir[n] \in Archives \cup {None} /\ arch[n] \in Archives \cup {None}
  /\ \A n \in DOMAIN rows : n \in Names /\ rows[n] \in Rows
  /\ results # None => \A n \in DOMAIN results.rows : results.rows[n].phase = "end"
  /\ plan \subseteq Names /\ gtodo \subseteq gfor /\ gfor \subseteq Names

\* A row that passes is about the content that was booted, also when a package
\* is rebuilt during the tests.
TestedIsWhatRan ==
  \A n \in DOMAIN rows : rows[n].pass => rows[n].tried = rows[n].sha

\* The archive sets that are published, listed and announced are one, and the
\* one that the presets of the readiness record provide, unless a preset was
\* edited both while that record was computed and while it was confirmed.
PublishedComplete ==
  published # None =>
    /\ published.sums = published.archives
    /\ published.record.archives = published.archives
    /\ published.notes = DOMAIN published.archives
    /\ published.edited \cap Presets = {} =>
         DOMAIN published.archives = Matrix(published.record.source)

\* Every archive that is published was booted, itself, and passed, by the test
\* runner of the readiness record, unless that was edited in both gates.
PublishedTested ==
  published # None =>
    \A n \in DOMAIN published.archives :
      /\ published.tests.rows[n].pass
      /\ published.tests.rows[n].tried = published.archives[n]
      /\ \A f \in Runner \ published.edited :
           published.tests.runner[f] = published.record.source[f]

\* The content that the readiness record lists for an input of a published
\* archive is one that its build can have read, whatever was edited and taken
\* back before and during either gate, unless the file was edited in both: the
\* gate hashes the sources once for each archive and again for the record.
PublishedCoherent ==
  published # None =>
    \A n \in DOMAIN published.archives :
      \A f \in (DOMAIN published.archives[n].inputs \cap Listed) \ published.edited :
        /\ f \in DOMAIN published.record.source
        /\ published.record.source[f] \in published.archives[n].made[f]

\* A resumed build skips a package only if its archive was made from the inputs
\* that are current.
ResumeSound ==
  [][\A n \in Names : Reuse(n) => StillMatch(arch[n])]_vars
=============================================================================
