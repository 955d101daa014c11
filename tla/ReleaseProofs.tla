--------------------------- MODULE ReleaseProofs ---------------------------
(***************************************************************************)
(* Proofs about Release, for every set of files, presets and variants, and *)
(* any schedule of goals, edits and kills.                                 *)
(***************************************************************************)
EXTENDS Release, TLAPS

Locations == {"idle", "next", "record", "supersede", "move", "replace", "report", "run",
              "check", "sums", "notes", "ready", "confirm", "upload"}

\* A package whose manifest is written and whose archive is not yet in place.
Pending == pc["package"] \in {"supersede", "move", "replace"}

\* An archive that was in place before the pending one was assembled.
Old(x) ==
  /\ x.serial \in Nat /\ x.serial < clock
  /\ Pending => x.serial < cand.serial

Shape ==
  /\ clock \in Nat
  /\ pc \in [Goals -> Locations]
  /\ DOMAIN arch = Names

SerialInv ==
  /\ Pending => cand.serial \in Nat /\ cand.serial < clock
  /\ \A n \in Names : arch[n] # None => Old(arch[n])

\* While an archive is tested, its digest is of an archive that is not coming
\* back, and what was extracted is that archive unless it has been replaced.
RowInv ==
  \A n \in DOMAIN rows :
    /\ n \in Names /\ Old(arch[n])
    /\ rows[n].phase # "hash" => Old(rows[n].sha)
    /\ rows[n].phase = "boot" /\ arch[n] = rows[n].sha => rows[n].tried = rows[n].sha
    /\ rows[n].pass => rows[n].phase = "end" /\ rows[n].tried = rows[n].sha

TestInv == Shape /\ SerialInv /\ RowInv

LEMMA TestInit == Init => TestInv
<1> SUFFICES ASSUME Init PROVE TestInv
  OBVIOUS
<1>1. Shape
  BY DEF Init, Shape, Goals, Locations
<1>2. SerialInv
  BY DEF Init, SerialInv, Pending, Goals
<1>3. RowInv
  BY DEF Init, RowInv
<1> QED
  BY <1>1, <1>2, <1>3 DEF TestInv

\* A step that leaves the archives, the tests and the pending package alone.
LEMMA Elsewhere ==
  ASSUME TestInv, UNCHANGED <<clock, arch, rows>>, pc' \in [Goals -> Locations],
         Pending' => Pending /\ cand' = cand
  PROVE  TestInv'
BY DEF TestInv, Shape, SerialInv, RowInv, Old, Pending

LEMMA TestPackaging == ASSUME TestInv, Package PROVE TestInv'
<1> USE DEF Goto, Goals, Locations, packager, tester, gate, dist
<1>1. Shape /\ SerialInv /\ RowInv
  BY DEF TestInv
<1>2. pc \in [Goals -> Locations] /\ clock \in Nat /\ DOMAIN arch = Names
  BY <1>1 DEF Shape
<1>3. ASSUME NEW S, NEW r, StartPackaging(S, r) PROVE TestInv'
  BY <1>2, <1>3, Elsewhere DEF StartPackaging, Pending
<1>4. ASSUME NEW n, Reuse(n) PROVE TestInv'
  BY <1>2, <1>4, Elsewhere DEF Reuse, Pending
<1>5. ASSUME NEW n, Compile(n) PROVE TestInv'
  <2>1. ~Pending /\ ~Pending' /\ UNCHANGED <<clock, arch, rows>> /\ pc' \in [Goals -> Locations]
    BY <1>2, <1>5 DEF Compile, Pending
  <2> QED
    BY <1>1, <2>1 DEF TestInv, Shape, SerialInv, RowInv, Old
<1>6. CASE Record
  <2>1. ~Pending /\ Pending' /\ UNCHANGED <<arch, rows>> /\ pc' \in [Goals -> Locations]
        /\ clock' = clock + 1 /\ cand'.serial = clock
    BY <1>2, <1>6 DEF Record, Pending
  <2>2. \A x : Old(x) => Old(x)'
    BY <1>2, <2>1 DEF Old
  <2>3. Shape' /\ SerialInv'
    BY <1>1, <1>2, <2>1, <2>2 DEF Shape, SerialInv
  <2>4. RowInv'
    BY <1>1, <2>1, <2>2 DEF RowInv
  <2> QED
    BY <2>3, <2>4 DEF TestInv
<1>7. CASE Supersede \/ Move
  BY <1>2, <1>7, Elsewhere DEF Supersede, Move, Pending
<1>8. CASE Replace
  <2>1. /\ Pending /\ ~Pending' /\ UNCHANGED <<clock, rows, cand>> /\ pc' \in [Goals -> Locations]
        /\ arch' = [arch EXCEPT ![name] = cand]
    BY <1>2, <1>8 DEF Replace, Pending
  <2>2. cand.serial \in Nat /\ cand.serial < clock
    BY <1>1, <2>1 DEF SerialInv
  <2>3. ASSUME NEW x, Old(x) PROVE Old(x)' /\ x # cand
    BY <2>1, <2>2, <2>3 DEF Old
  <2>4. Old(cand)'
    BY <2>1, <2>2 DEF Old
  <2>5. \A n \in Names : arch'[n] = IF n = name THEN cand ELSE arch[n]
    BY <1>2, <2>1
  <2>6. Shape' /\ SerialInv'
    <3>1. ASSUME NEW n \in Names PROVE arch'[n] # None => Old(arch[n])'
      <4>1. CASE n = name
        BY <2>1, <2>2, <2>5, <4>1 DEF Old
      <4>2. CASE n # name
        <5>1. arch'[n] = arch[n]
          BY <2>5, <4>2
        <5>2. arch[n] # None => Old(arch[n])
          BY <1>1 DEF SerialInv
        <5>3. arch[n] # None => arch[n].serial \in Nat /\ arch[n].serial < clock
          BY <1>1, <5>2 DEF Old, SerialInv
        <5> QED
          BY <2>1, <5>1, <5>3 DEF Old
      <4> QED
        BY <4>1, <4>2
    <3>2. Shape'
      BY <1>1, <1>2, <2>1 DEF Shape
    <3> QED
      BY <2>1, <3>1, <3>2 DEF SerialInv
  <2>7. ASSUME NEW n \in DOMAIN rows
        PROVE  /\ n \in Names /\ Old(arch[n])'
               /\ rows[n].phase # "hash" => Old(rows[n].sha)'
               /\ rows[n].phase = "boot" /\ arch'[n] = rows[n].sha => rows[n].tried = rows[n].sha
               /\ rows[n].pass => rows[n].phase = "end" /\ rows[n].tried = rows[n].sha
    <3>1. /\ n \in Names /\ Old(arch[n]) /\ (rows[n].phase # "hash" => Old(rows[n].sha))
          /\ rows[n].phase = "boot" /\ arch[n] = rows[n].sha => rows[n].tried = rows[n].sha
          /\ rows[n].pass => rows[n].phase = "end" /\ rows[n].tried = rows[n].sha
      BY <1>1, <2>7 DEF RowInv
    <3>2. rows[n].phase # "hash" => Old(rows[n].sha)'
      BY <2>1, <2>3, <3>1 DEF Old
    <3>3. Old(arch[n])'
      BY <2>1, <2>2, <2>5, <3>1 DEF Old
    <3>4. CASE n = name
      BY <2>3, <2>5, <3>1, <3>2, <3>3, <3>4
    <3>5. CASE n # name
      BY <2>5, <3>1, <3>2, <3>3, <3>5
    <3> QED
      BY <3>4, <3>5
  <2> QED
    BY <2>1, <2>6, <2>7 DEF TestInv, RowInv, Old
<1>9. CASE Report \/ FinishPackaging
  <2>1. ~Pending /\ ~Pending' /\ UNCHANGED <<clock, arch, rows>> /\ pc' \in [Goals -> Locations]
    BY <1>2, <1>9 DEF Report, FinishPackaging, StopPackaging, Pending
  <2> QED
    BY <1>1, <2>1 DEF TestInv, Shape, SerialInv, RowInv, Old
<1> QED
  BY <1>3, <1>4, <1>5, <1>6, <1>7, <1>8, <1>9 DEF Package

LEMMA TestTesting == ASSUME TestInv, Test PROVE TestInv'
<1> USE DEF Goto, Goals, Locations, packager, tester, gate, dist
<1>1. Shape /\ SerialInv /\ RowInv
  BY DEF TestInv
<1>2. pc \in [Goals -> Locations] /\ clock \in Nat /\ DOMAIN arch = Names
  BY <1>1 DEF Shape
<1>3. ASSUME NEW S \in SUBSET Existing, StartTests(S) PROVE TestInv'
  <2>1. /\ UNCHANGED <<clock, arch, cand>> /\ pc' \in [Goals -> Locations] /\ (Pending <=> Pending')
        /\ rows' = [n \in S |-> Row("hash", None, None, FALSE)]
    BY <1>2, <1>3 DEF StartTests, Pending
  <2>2. \A x : Old(x) => Old(x)'
    BY <2>1 DEF Old
  <2>3. Shape' /\ SerialInv'
    BY <1>1, <2>1, <2>2 DEF Shape, SerialInv
  <2>4. RowInv'
    BY <1>1, <2>1, <2>2 DEF RowInv, Row, SerialInv, Existing
  <2> QED
    BY <2>3, <2>4 DEF TestInv
<1>4. ASSUME NEW n \in Names, NEW phase, NEW row, TestStep(n, phase, row),
             rows[n].phase = phase /\ n \in DOMAIN rows =>
               /\ row.phase # "hash" => Old(row.sha)
               /\ row.phase = "boot" /\ arch[n] = row.sha => row.tried = row.sha
               /\ row.pass => row.phase = "end" /\ row.tried = row.sha
      PROVE  TestInv'
  <2>1. /\ UNCHANGED <<clock, arch, cand, pc>> /\ rows' = [rows EXCEPT ![n] = row]
        /\ n \in DOMAIN rows /\ rows[n].phase = phase
    BY <1>4 DEF TestStep
  <2>2. \A x : Old(x) => Old(x)'
    BY <2>1 DEF Old, Pending
  <2>3. Shape' /\ SerialInv'
    BY <1>1, <2>1, <2>2 DEF Shape, SerialInv, Pending
  <2>4. DOMAIN rows' = DOMAIN rows /\ \A m \in DOMAIN rows : rows'[m] = IF m = n THEN row ELSE rows[m]
    BY <2>1
  <2>5. RowInv'
    BY <1>1, <1>4, <2>1, <2>2, <2>4 DEF RowInv
  <2> QED
    BY <2>3, <2>5 DEF TestInv
<1>5. ASSUME NEW n \in Names, HashArchive(n) \/ Extract(n) \/ Boot(n) PROVE TestInv'
  <2>1. n \in DOMAIN rows => Old(arch[n]) /\ (rows[n].phase # "hash" => Old(rows[n].sha))
          /\ (rows[n].phase = "boot" /\ arch[n] = rows[n].sha => rows[n].tried = rows[n].sha)
    BY <1>1 DEF RowInv
  <2>2. CASE HashArchive(n)
    BY <1>4, <2>1, <2>2 DEF HashArchive, Row
  <2>3. CASE Extract(n)
    BY <1>4, <2>1, <2>3 DEF Extract, Row
  <2>4. CASE Boot(n)
    <3>1. PICK ok \in BOOLEAN :
            TestStep(n, "boot", Row("end", rows[n].sha, rows[n].tried, ok /\ arch[n] = rows[n].sha))
      BY <2>4 DEF Boot
    <3> QED
      BY <1>4, <2>1, <3>1 DEF Row
  <2> QED
    BY <1>5, <2>2, <2>3, <2>4
<1>6. CASE WriteResults
  <2>1. /\ UNCHANGED <<clock, arch, cand>> /\ pc' \in [Goals -> Locations] /\ (Pending <=> Pending')
        /\ rows' = <<>>
    BY <1>2, <1>6 DEF WriteResults, StopTests, Pending
  <2> QED
    BY <1>1, <2>1 DEF TestInv, Shape, SerialInv, RowInv, Old
<1> QED
  BY <1>3, <1>5, <1>6 DEF Test

LEMMA TestGate == ASSUME TestInv, Gate PROVE TestInv'
<1> USE DEF Goto, Goals, Locations, packager, tester, gate, dist
<1>1. pc \in [Goals -> Locations]
  BY DEF TestInv, Shape
<1>2. /\ UNCHANGED <<clock, arch, rows, cand>>
      /\ pc' \in [Goals -> Locations] /\ pc'["package"] = pc["package"]
  <2>1. ASSUME NEW mode, StartGate(mode) PROVE <1>2!:
    BY <1>1, <2>1 DEF StartGate
  <2>2. ASSUME NEW n, CheckArchive(n) \/ RefuseArchive(n) PROVE <1>2!:
    BY <1>1, <2>2 DEF CheckArchive, RefuseArchive, StopGate
  <2>3. CASE Seal \/ WriteSums \/ WriteNotes \/ WriteReady
    BY <1>1, <2>3 DEF Seal, WriteSums, WriteNotes, WriteReady, StopGate
  <2>4. CASE Confirm \/ Upload
    BY <1>1, <2>4 DEF Confirm, Upload, StopGate
  <2> QED
    BY <2>1, <2>2, <2>3, <2>4 DEF Gate
<1> QED
  BY <1>2, Elsewhere DEF Pending

LEMMA TestCrash == ASSUME TestInv, NEW g \in Goals, Crash(g) PROVE TestInv'
<1> USE DEF Goals, Locations, packager, tester, gate, dist
<1>1. Shape /\ SerialInv /\ RowInv
  BY DEF TestInv
<1>2. pc \in [Goals -> Locations]
  BY <1>1 DEF Shape
<1>3. CASE g = "package"
  <2>1. UNCHANGED <<clock, arch, rows>> /\ ~Pending' /\ pc' \in [Goals -> Locations]
    BY <1>2, <1>3 DEF Crash, StopPackaging, Pending
  <2> QED
    BY <1>1, <2>1 DEF TestInv, Shape, SerialInv, RowInv, Old
<1>4. CASE g = "test"
  <2>1. /\ UNCHANGED <<clock, arch, cand>> /\ pc' \in [Goals -> Locations] /\ (Pending <=> Pending')
        /\ rows' = <<>>
    BY <1>2, <1>4 DEF Crash, StopTests, Pending
  <2> QED
    BY <1>1, <2>1 DEF TestInv, Shape, SerialInv, RowInv, Old
<1>5. CASE g = "gate"
  BY <1>2, <1>5, Elsewhere DEF Crash, StopGate, Pending
<1> QED
  BY <1>3, <1>4, <1>5

LEMMA TestStepInv == TestInv /\ [Next]_vars => TestInv'
<1> SUFFICES ASSUME TestInv, [Next]_vars PROVE TestInv'
  OBVIOUS
<1>1. CASE \E f \in Editable : Edit(f)
  <2>1. UNCHANGED <<clock, arch, rows, pc>> /\ (pc["package"] = "record" \/ cand' = cand)
    BY <1>1 DEF Edit, dist, tester
  <2> QED
    BY <2>1, Elsewhere DEF TestInv, Shape, Pending
<1>2. CASE UNCHANGED vars
  BY <1>2, Elsewhere DEF vars, dist, packager, tester, gate, TestInv, Shape, Pending
<1> QED
  BY <1>1, <1>2, TestPackaging, TestTesting, TestGate, TestCrash DEF Next

\* A test that passes is about the archive it booted, for any number of
\* archives, rebuilt any number of times while the tests run.
THEOREM TestsCorrect == Spec => []TestedIsWhatRan
<1>1. TestInv => TestedIsWhatRan
  BY DEF TestInv, RowInv, TestedIsWhatRan
<1> QED
  BY <1>1, TestInit, TestStepInv, PTL DEF Spec

-----------------------------------------------------------------------------
\* Every file that is not optional is there.
SourceInv ==
  /\ src \in [Files -> 0..MaxRev]
  /\ \A f \in Files \ Optional : src[f] # 0

\* What the packager holds, location by location.
CandInv ==
  /\ pc["package"] \in {"record", "supersede", "move", "replace", "report"} => name \in Names
  /\ pc["package"] = "record" => cand.made \in Readings
  /\ Pending => cand \in Archives

TypeInv ==
  /\ TypeOK /\ SourceInv /\ CandInv
  /\ pc \in [Goals -> Locations] /\ DOMAIN arch = Names /\ DOMAIN dir = Names

LEMMA SnapshotTyped ==
  ASSUME SourceInv, NEW F \in SUBSET Files
  PROVE  Snapshot(F) \in Contents
<1> DEFINE S == {f \in F : src[f] # 0}
<1>1. S \in SUBSET Files /\ Snapshot(F) = [f \in S |-> src[f]]
  BY DEF Snapshot
<1>2. ASSUME NEW f \in S PROVE src[f] \in 1..MaxRev
  <2>1. src[f] \in 0..MaxRev /\ src[f] # 0 /\ MaxRev \in Nat
    BY SourceAssumption DEF SourceInv
  <2> HIDE DEF S
  <2> QED
    BY <2>1
<1> HIDE DEF S
<1>3. Snapshot(F) \in [S -> 1..MaxRev]
  BY <1>1, <1>2
<1>4. [S -> 1..MaxRev] \in {[T -> 1..MaxRev] : T \in SUBSET Files}
  BY <1>1
<1> QED
  BY <1>3, <1>4 DEF Contents

LEMMA NamesTyped ==
  ASSUME NEW n \in Names
  PROVE  InputsOf(n) \subseteq Files /\ n.preset \in Presets
BY SourceAssumption DEF Names, InputsOf

LEMMA PresetTyped ==
  ASSUME SourceInv, NEW f \in Presets
  PROVE  f \in Files /\ src[f] \in 1..MaxRev
BY SourceAssumption DEF SourceInv

\* A preset that is read again still names a package of its own.
LEMMA NameTyped ==
  ASSUME SourceInv, NEW n \in Names
  PROVE  [preset |-> n.preset, variant |-> n.variant, version |-> Version[src[n.preset]]] \in Names
<1>1. n.preset \in Presets /\ n.variant \in UNION {Variants[f] : f \in Presets}
  BY DEF Names
<1>2. src[n.preset] \in 1..MaxRev
  BY <1>1, PresetTyped
<1> QED
  BY <1>1, <1>2 DEF Names

LEMMA WantedTyped == ASSUME SourceInv PROVE Wanted \subseteq Names
<1> SUFFICES ASSUME NEW f \in Presets, NEW v \in Variants[f]
             PROVE  [preset |-> f, variant |-> v, version |-> Version[src[f]]] \in Names
  BY DEF Wanted, Matrix
<1>1. src[f] \in 1..MaxRev
  BY PresetTyped
<1>2. v \in UNION {Variants[g] : g \in Presets}
  OBVIOUS
<1> QED
  BY <1>1, <1>2 DEF Names

LEMMA TypeInit == Init => TypeInv
<1> SUFFICES ASSUME Init PROVE TypeInv
  OBVIOUS
<1> USE SourceAssumption
<1>1. SourceInv
  BY DEF Init, SourceInv
<1>2. CandInv /\ pc \in [Goals -> Locations] /\ DOMAIN arch = Names /\ DOMAIN dir = Names
  BY DEF Init, CandInv, Pending, Goals, Locations
<1>3. TypeOK
  BY <1>1 DEF Init, TypeOK, SourceInv
<1> QED
  BY <1>1, <1>2, <1>3 DEF TypeInv

\* A step that leaves what the packager has typed.
LEMMA TypeElsewhere ==
  ASSUME TypeInv, UNCHANGED <<src, clock, dir, arch, plan, name, cand>>,
         pc' \in [Goals -> Locations], pc'["package"] = pc["package"],
         \A n \in DOMAIN rows' : n \in Names /\ rows'[n] \in Rows,
         results' # None => \A n \in DOMAIN results'.rows : results'.rows[n].phase = "end",
         gtodo' \subseteq gfor' /\ gfor' \subseteq Names
  PROVE  TypeInv'
<1>1. TypeOK' /\ SourceInv'
  BY DEF TypeInv, TypeOK, SourceInv
<1>2. CandInv'
  BY DEF TypeInv, CandInv, Pending
<1> QED
  BY <1>1, <1>2 DEF TypeInv

LEMMA TypePackaging == ASSUME TypeInv, Package PROVE TypeInv'
<1> USE SourceAssumption DEF Goto, Goals, Locations, packager, tester, gate, dist
<1>1. TypeOK /\ SourceInv /\ CandInv /\ pc \in [Goals -> Locations]
  BY DEF TypeInv
<1>2. /\ src \in [Files -> 0..MaxRev] /\ clock \in 0..MaxBuilds
      /\ \A n \in Names : dir[n] \in Archives \cup {None} /\ arch[n] \in Archives \cup {None}
      /\ plan \subseteq Names /\ DOMAIN arch = Names /\ DOMAIN dir = Names
  BY <1>1 DEF TypeInv, TypeOK
\* What the other goals have is left alone by all of them.
<1>3. ASSUME UNCHANGED <<src, results, tester, gate>>,
             clock' \in 0..MaxBuilds, plan' \subseteq Names, CandInv', pc' \in [Goals -> Locations],
             \A n \in Names : dir'[n] \in Archives \cup {None} /\ arch'[n] \in Archives \cup {None},
             DOMAIN arch' = Names, DOMAIN dir' = Names
      PROVE  TypeInv'
  BY <1>1, <1>3 DEF TypeInv, TypeOK, SourceInv
<1>4. ASSUME NEW S \in {Wanted} \cup {{n} : n \in Wanted}, NEW r \in BOOLEAN, StartPackaging(S, r)
      PROVE  TypeInv'
  <2>1. S \subseteq Names
    BY <1>1, WantedTyped
  <2>2. CandInv' /\ pc' \in [Goals -> Locations]
    BY <1>1, <1>4 DEF StartPackaging, CandInv, Pending
  <2> QED
    BY <1>2, <1>3, <1>4, <2>1, <2>2 DEF StartPackaging
<1>5. ASSUME NEW n \in Names, Reuse(n) PROVE TypeInv'
  <2>1. CandInv' /\ pc' \in [Goals -> Locations]
    BY <1>1, <1>5 DEF Reuse, CandInv, Pending
  <2> QED
    BY <1>2, <1>3, <1>5, <2>1 DEF Reuse
<1>6. ASSUME NEW n \in Names, Compile(n) PROVE TypeInv'
  <2>1. name' \in Names /\ cand'.made \in Readings
    <3>1. InputsOf(n) \in SUBSET Files /\ \A f \in InputsOf(n) : {src[f]} \in SUBSET (0..MaxRev)
      BY <1>2, NamesTyped
    <3>2. [f \in InputsOf(n) |-> {src[f]}] \in [InputsOf(n) -> SUBSET (0..MaxRev)]
      BY <3>1
    <3> QED
      BY <1>1, <1>6, <3>1, <3>2, NameTyped DEF Compile, Readings
  <2>2. pc' \in [Goals -> Locations] /\ pc'["package"] = "record"
    BY <1>1, <1>6 DEF Compile
  <2>3. CandInv'
    BY <2>1, <2>2 DEF CandInv, Pending
  <2> QED
    BY <1>2, <1>3, <1>6, <2>2, <2>3 DEF Compile
<1>7. CASE Record
  <2>1. pc["package"] = "record" /\ pc'["package"] = "supersede" /\ pc' \in [Goals -> Locations]
    BY <1>1, <1>7 DEF Record
  <2>2. name \in Names /\ cand.made \in Readings
    BY <1>1, <2>1 DEF CandInv
  <2>3. Snapshot(InputsOf(name)) \in Contents
    BY <1>1, <2>2, NamesTyped, SnapshotTyped
  <2>4. cand' \in Archives /\ name' = name
    BY <1>2, <1>7, <2>2, <2>3 DEF Record, Archives
  <2>5. CandInv'
    BY <2>1, <2>2, <2>4 DEF CandInv
  <2>6. clock' \in 0..MaxBuilds
    BY <1>2, <1>7 DEF Record
  <2> QED
    BY <1>2, <1>3, <1>7, <2>1, <2>5, <2>6 DEF Record
<1>8. CASE Supersede \/ Move \/ Replace
  <2>1. Pending /\ name \in Names /\ cand \in Archives
    BY <1>1, <1>8 DEF Supersede, Move, Replace, CandInv, Pending
  <2>2. CandInv' /\ pc' \in [Goals -> Locations]
    BY <1>1, <1>8, <2>1 DEF Supersede, Move, Replace, CandInv, Pending
  <2>3. /\ \A n \in Names : dir'[n] \in Archives \cup {None} /\ arch'[n] \in Archives \cup {None}
        /\ DOMAIN arch' = Names /\ DOMAIN dir' = Names
    BY <1>2, <1>8, <2>1 DEF Supersede, Move, Replace
  <2> QED
    BY <1>2, <1>3, <1>8, <2>2, <2>3 DEF Supersede, Move, Replace
<1>9. CASE Report \/ FinishPackaging
  <2>1. CandInv' /\ pc' \in [Goals -> Locations] /\ plan' \subseteq Names
    BY <1>1, <1>2, <1>9 DEF Report, FinishPackaging, StopPackaging, CandInv, Pending
  <2> QED
    BY <1>2, <1>3, <1>9, <2>1 DEF Report, FinishPackaging
<1> QED
  BY <1>4, <1>5, <1>6, <1>7, <1>8, <1>9 DEF Package

LEMMA TypeTesting == ASSUME TypeInv, Test PROVE TypeInv'
<1> USE DEF Goto, Goals, Locations, packager, tester, gate, dist
<1>1. /\ TypeOK /\ pc \in [Goals -> Locations]
      /\ \A n \in Names : arch[n] \in Archives \cup {None}
      /\ \A n \in DOMAIN rows : n \in Names /\ rows[n] \in Rows
      /\ results # None => \A n \in DOMAIN results.rows : results.rows[n].phase = "end"
      /\ gtodo \subseteq gfor /\ gfor \subseteq Names
  BY DEF TypeInv, TypeOK
<1>2. ASSUME NEW S \in SUBSET Existing, StartTests(S) PROVE TypeInv'
  <2>1. \A n \in DOMAIN rows' : n \in Names /\ rows'[n] \in Rows
    BY <1>2 DEF StartTests, Existing, Row, Rows
  <2> QED
    BY <1>1, <1>2, <2>1, TypeElsewhere DEF StartTests
<1>3. ASSUME NEW n \in Names, NEW phase, NEW row \in Rows, TestStep(n, phase, row) PROVE TypeInv'
  <2>1. \A m \in DOMAIN rows' : m \in Names /\ rows'[m] \in Rows
    BY <1>1, <1>3 DEF TestStep
  <2> QED
    BY <1>1, <1>3, <2>1, TypeElsewhere DEF TestStep
<1>4. ASSUME NEW n \in Names, HashArchive(n) \/ Extract(n) \/ Boot(n) PROVE TypeInv'
  <2>1. CASE HashArchive(n)
    BY <1>1, <1>3, <2>1 DEF HashArchive, Row, Rows
  <2>2. CASE Extract(n)
    <3>1. n \in DOMAIN rows
      BY <2>2 DEF Extract, TestStep
    <3>2. Row("boot", rows[n].sha, arch[n], FALSE) \in Rows
      BY <1>1, <3>1 DEF Row, Rows
    <3> QED
      BY <1>3, <2>2, <3>2 DEF Extract
  <2>3. CASE Boot(n)
    <3>1. PICK ok \in BOOLEAN :
            TestStep(n, "boot", Row("end", rows[n].sha, rows[n].tried, ok /\ arch[n] = rows[n].sha))
      BY <2>3 DEF Boot
    <3>2. n \in DOMAIN rows
      BY <3>1 DEF TestStep
    <3>3. Row("end", rows[n].sha, rows[n].tried, ok /\ arch[n] = rows[n].sha) \in Rows
      BY <1>1, <3>2 DEF Row, Rows
    <3> QED
      BY <1>3, <3>1, <3>3
  <2> QED
    BY <1>4, <2>1, <2>2, <2>3
<1>5. CASE WriteResults
  BY <1>1, <1>5, TypeElsewhere DEF WriteResults, StopTests
<1> QED
  BY <1>2, <1>4, <1>5 DEF Test

LEMMA TypeGate == ASSUME TypeInv, Gate PROVE TypeInv'
<1> USE DEF Goto, Goals, Locations, packager, tester, gate, dist
<1>1. /\ TypeOK /\ pc \in [Goals -> Locations] /\ Wanted \subseteq Names
      /\ \A n \in DOMAIN rows : n \in Names /\ rows[n] \in Rows
      /\ results # None => \A n \in DOMAIN results.rows : results.rows[n].phase = "end"
      /\ gtodo \subseteq gfor /\ gfor \subseteq Names
  BY WantedTyped DEF TypeInv, TypeOK
<1>2. /\ UNCHANGED <<src, clock, dir, arch, plan, name, cand, rows, results>>
      /\ pc' \in [Goals -> Locations] /\ pc'["package"] = pc["package"]
      /\ gtodo' \subseteq gfor' /\ gfor' \subseteq Names
  <2>1. ASSUME NEW mode, StartGate(mode) PROVE <1>2!:
    BY <1>1, <2>1 DEF StartGate
  <2>2. ASSUME NEW n, CheckArchive(n) \/ RefuseArchive(n) PROVE <1>2!:
    BY <1>1, <2>2 DEF CheckArchive, RefuseArchive, StopGate
  <2>3. CASE Seal \/ WriteSums \/ WriteNotes \/ WriteReady
    BY <1>1, <2>3 DEF Seal, WriteSums, WriteNotes, WriteReady, StopGate
  <2>4. CASE Confirm \/ Upload
    BY <1>1, <2>4 DEF Confirm, Upload, StopGate
  <2> QED
    BY <2>1, <2>2, <2>3, <2>4 DEF Gate
<1> QED
  BY <1>1, <1>2, TypeElsewhere

LEMMA TypeStep == TypeInv /\ [Next]_vars => TypeInv'
<1> SUFFICES ASSUME TypeInv, [Next]_vars PROVE TypeInv'
  OBVIOUS
<1> USE SourceAssumption DEF Goals, Locations, packager, tester, gate, dist
<1>1. TypeOK /\ SourceInv /\ CandInv /\ pc \in [Goals -> Locations]
  BY DEF TypeInv
<1>2. CASE UNCHANGED vars
  BY <1>1, <1>2 DEF vars, TypeInv, TypeOK, SourceInv, CandInv, Pending
<1>3. ASSUME NEW f \in Editable, Edit(f) PROVE TypeInv'
  <2>1. PICK r \in IF f \in Optional THEN 0..MaxRev ELSE 1..MaxRev :
          /\ src' = [src EXCEPT ![f] = r]
          /\ cand' = IF pc["package"] = "record" THEN ReadLater(f, r) ELSE cand
          /\ UNCHANGED <<clock, dir, arch, results, pc, plan, name, rows, gfor, gtodo>>
    BY <1>3 DEF Edit
  <2>2. r \in 0..MaxRev
    <3>1. MaxRev \in Nat
      OBVIOUS
    <3> QED
      BY <2>1, <3>1
  <2>3. src' \in [Files -> 0..MaxRev] /\ \A g \in Files \ Optional : src'[g] # 0
    <3>1. f \notin Optional => r # 0
      BY <2>1
    <3> QED
      BY <1>1, <2>1, <2>2, <3>1 DEF SourceInv
  <2>4. CandInv'
    <3>1. CASE pc["package"] = "record"
      <4>1. PICK S \in SUBSET Files : cand.made \in [S -> SUBSET (0..MaxRev)]
        BY <1>1, <3>1 DEF CandInv, Readings
      <4>2. cand'.made = [g \in S |-> IF g = f THEN cand.made[g] \cup {r} ELSE cand.made[g]]
        BY <2>1, <3>1, <4>1 DEF ReadLater
      <4>3. cand'.made \in [S -> SUBSET (0..MaxRev)]
        BY <2>2, <4>1, <4>2
      <4>4. cand'.made \in Readings
        BY <4>3 DEF Readings
      <4> QED
        BY <1>1, <2>1, <3>1, <4>4 DEF CandInv, Pending
    <3>2. CASE pc["package"] # "record"
      BY <1>1, <2>1, <3>2 DEF CandInv, Pending
    <3> QED
      BY <3>1, <3>2
  <2> QED
    BY <1>1, <2>1, <2>3, <2>4 DEF TypeInv, TypeOK, SourceInv
<1>4. ASSUME NEW g \in Goals, Crash(g) PROVE TypeInv'
  <2>1. CASE g = "package"
    <3>1. CandInv' /\ pc' \in [Goals -> Locations] /\ plan' \subseteq Names
      BY <1>1, <1>4, <2>1 DEF Crash, StopPackaging, CandInv, Pending
    <3> QED
      BY <1>1, <1>4, <2>1, <3>1 DEF Crash, StopPackaging, TypeInv, TypeOK, SourceInv
  <2>2. CASE g = "test"
    BY <1>1, <1>4, <2>2, TypeElsewhere DEF Crash, StopTests, TypeOK
  <2>3. CASE g = "gate"
    BY <1>1, <1>4, <2>3, TypeElsewhere DEF Crash, StopGate, TypeOK
  <2> QED
    BY <2>1, <2>2, <2>3
<1> QED
  BY <1>2, <1>3, <1>4, TypePackaging, TypeTesting, TypeGate DEF Next

\* Archives on disk are complete, packages have names of the matrix, and results
\* are of ended tests, for any schedule of goals, edits and kills.
THEOREM ReleaseTyped == Spec => []TypeOK
<1>1. TypeInv => TypeOK
  BY DEF TypeInv
<1> QED
  BY <1>1, TypeInit, TypeStep, PTL DEF Spec

-----------------------------------------------------------------------------
(***************************************************************************)
(* What is published, when goals run one at a time.  A developer may edit  *)
(* sources, and take edits back, while the gate reads them one after the   *)
(* other: what a gate finds holds of the files that were not edited during *)
(* its checks, and since both gates compute the same record, what the two  *)
(* have found holds of the files that were not edited in both.             *)
(***************************************************************************)
\* The packages of one preset, among those of S and as its content r names them.
OfPreset(f, S) == {n \in S : n.preset = f}

Provided(f, r) == {[preset |-> f, variant |-> v, version |-> Version[r]] : v \in Variants[f]}

Alone == \A g, h \in Goals : pc[g] # "idle" /\ pc[h] # "idle" => g = h

\* A row that passed is about the archive it booted, also once it is written.
ResultsInv ==
  results # None =>
    \A n \in DOMAIN results.rows :
      results.rows[n].pass => results.rows[n].tried = results.rows[n].sha

\* What a readiness record says of the files that were not edited while it was
\* computed: they provide its packages, are the inputs of its archives and ran
\* its tests.
Sound(record, edited) ==
  /\ Presets \subseteq DOMAIN record.source
  /\ \A f \in Presets \ edited :
       OfPreset(f, DOMAIN record.archives) = Provided(f, record.source[f])
  /\ \A n \in DOMAIN record.archives :
       \A f \in (DOMAIN record.archives[n].inputs \cap Listed) \ edited :
         f \in DOMAIN record.source /\ record.source[f] = record.archives[n].inputs[f]
  /\ \A f \in Runner \ edited : record.tests.runner[f] = record.source[f]

ReadyInv ==
  ready # None =>
    /\ ready.notes = DOMAIN ready.record.archives
    /\ Sound(ready.record, ready.edited)

\* What the gate has found when it started, and of the archives checked so far.
GateInv ==
  pc["gate"] # "idle" =>
    /\ results # None /\ gtests = results
    /\ gfor = Existing /\ gtodo \subseteq gfor
    /\ DOMAIN results.rows = gfor /\ \A n \in gfor : results.rows[n].pass
    /\ gsums = [n \in gfor \ gtodo |-> arch[n]]
    /\ \A n \in gfor \ gtodo : results.rows[n].sha = arch[n]

\* While it makes its checks, what it has found holds of the sources as they
\* are, those that were edited since it started excepted.
CheckInv ==
  pc["gate"] = "check" =>
    /\ \A f \in Presets \ gedited : OfPreset(f, gfor) = Provided(f, src[f])
    /\ \A n \in gfor \ gtodo : \A f \in DOMAIN arch[n].inputs \ gedited : arch[n].inputs[f] = src[f]
    /\ \A f \in Runner \ gedited : results.runner[f] = src[f]

Sealed == {"sums", "notes", "ready", "confirm", "upload"}

SealInv ==
  pc["gate"] \in Sealed =>
    /\ gtodo = {} /\ grecord.archives = gsums /\ grecord.tests = results
    /\ Sound(grecord, gedited)
    /\ pc["gate"] = "ready" => notes = gfor
    /\ pc["gate"] = "upload" => Confirmed

PublishInv ==
  /\ TypeInv /\ TestInv /\ Alone /\ ResultsInv /\ ReadyInv /\ GateInv /\ CheckInv /\ SealInv
  /\ PublishedComplete /\ PublishedTested

LEMMA SnapshotDomain ==
  ASSUME NEW F
  PROVE  /\ \A f : f \in DOMAIN Snapshot(F) <=> f \in F /\ src[f] # 0
         /\ \A f \in F : src[f] # 0 => Snapshot(F)[f] = src[f]
BY DEF Snapshot

\* The matrix, preset by preset.
LEMMA MatrixParts ==
  ASSUME NEW s, Presets \subseteq DOMAIN s, NEW S, \A n \in S : n.preset \in Presets,
         \A f \in Presets : OfPreset(f, S) = Provided(f, s[f])
  PROVE  S = Matrix(s)
<1>1. \A f \in Presets : OfPreset(f, S) =
        {[preset |-> f, variant |-> v, version |-> Version[s[f]]] : v \in Variants[f]}
  BY DEF Provided
<1>2. Matrix(s) = UNION {OfPreset(f, S) : f \in Presets}
  <2>1. Presets \cap DOMAIN s = Presets
    OBVIOUS
  <2> QED
    BY <1>1, <2>1 DEF Matrix
<1>3. S = UNION {OfPreset(f, S) : f \in Presets}
  BY DEF OfPreset
<1> QED
  BY <1>2, <1>3

LEMMA PartsOfMatrix ==
  ASSUME NEW s, Presets \subseteq DOMAIN s, NEW f \in Presets
  PROVE  OfPreset(f, Matrix(s)) = Provided(f, s[f])
<1>1. ASSUME NEW n \in Matrix(s), n.preset = f PROVE n \in Provided(f, s[f])
  <2>1. PICK g \in Presets \cap DOMAIN s :
          n \in {[preset |-> g, variant |-> v, version |-> Version[s[g]]] : v \in Variants[g]}
    BY DEF Matrix
  <2>2. PICK v \in Variants[g] : n = [preset |-> g, variant |-> v, version |-> Version[s[g]]]
    BY <2>1
  <2>3. g = f
    BY <1>1, <2>2
  <2> QED
    BY <2>2, <2>3 DEF Provided
<1>2. ASSUME NEW n \in Provided(f, s[f]) PROVE n \in Matrix(s) /\ n.preset = f
  BY <1>2 DEF Provided, Matrix
<1> QED
  BY <1>1, <1>2 DEF OfPreset

\* What two gates have found, when their records are equal.
LEMMA SoundTwice ==
  ASSUME NEW record, NEW e, NEW d, Sound(record, e), Sound(record, d)
  PROVE  Sound(record, e \cap d)
BY DEF Sound

\* A goal that runs is the only one, and one that starts finds none.
LEMMA AloneStep ==
  ASSUME OneGoal, Alone, pc \in [Goals -> Locations], NEW g \in Goals, NEW l,
         pc' = [pc EXCEPT ![g] = l], pc[g] # "idle" \/ MayStart(g)
  PROVE  Alone' /\ \A h \in Goals \ {g} : pc[h] = "idle" /\ pc'[h] = "idle"
BY DEF Alone, MayStart

Announced ==
  ReadyInv /\ GateInv /\ CheckInv /\ SealInv /\ PublishedComplete /\ PublishedTested

\* The gate is not, or no longer, at work: nothing that is announced changes.
LEMMA GateEnds ==
  ASSUME PublishInv, pc'["gate"] = "idle", UNCHANGED <<ready, published>>
  PROVE  Announced'
BY DEF Announced, PublishInv, ReadyInv, GateInv, CheckInv, SealInv, Sealed,
  PublishedComplete, PublishedTested

\* The packager and the tester.
LEMMA PublishOthers ==
  ASSUME OneGoal, PublishInv, TypeInv', TestInv', Package \/ Test
  PROVE  PublishInv'
<1> USE DEF Goto, packager, tester, gate, dist
<1>1. /\ pc \in [Goals -> Locations] /\ Alone /\ ResultsInv
      /\ {"package", "test", "gate"} \subseteq Goals /\ "package" # "gate" /\ "test" # "gate"
  BY DEF PublishInv, TypeInv, Goals
<1>2. CASE Package
  <2>1. \E l : pc' = [pc EXCEPT !["package"] = l] /\ (pc["package"] # "idle" \/ MayStart("package"))
    <3>1. CASE \E S \in {Wanted} \cup {{n} : n \in Wanted}, r \in BOOLEAN : StartPackaging(S, r)
      BY <3>1 DEF StartPackaging
    <3>2. CASE \E n \in Names : Reuse(n) \/ Compile(n)
      <4>1. pc["package"] = "next"
        BY <3>2 DEF Reuse, Compile
      <4>2. pc' = pc \/ \E l : pc' = [pc EXCEPT !["package"] = l]
        BY <3>2 DEF Reuse, Compile
      <4>3. pc = [pc EXCEPT !["package"] = "next"]
        BY <1>1, <4>1
      <4>4. \E l : pc' = [pc EXCEPT !["package"] = l]
        BY <4>2, <4>3
      <4> QED
        BY <4>1, <4>4
    <3>3. CASE Record \/ Supersede \/ Move \/ Replace
      BY <3>3 DEF Record, Supersede, Move, Replace
    <3>4. CASE Report \/ FinishPackaging
      BY <3>4 DEF Report, FinishPackaging, StopPackaging
    <3> QED
      BY <1>2, <3>1, <3>2, <3>3, <3>4 DEF Package
  <2>2. Alone' /\ pc["gate"] = "idle" /\ pc'["gate"] = "idle"
    BY <1>1, <2>1, AloneStep
  <2>3. UNCHANGED <<ready, published, results>>
    BY <1>2 DEF Package, StartPackaging, Reuse, Compile, Record, Supersede, Move, Replace, Report,
      FinishPackaging
  <2> QED
    BY <1>1, <2>2, <2>3, GateEnds DEF Announced, PublishInv, ResultsInv
<1>3. CASE Test
  <2>1. \E l : pc' = [pc EXCEPT !["test"] = l] /\ (pc["test"] # "idle" \/ MayStart("test"))
    <3>1. CASE \E S \in SUBSET Existing : StartTests(S)
      BY <3>1 DEF StartTests
    <3>2. CASE \E n \in Names : HashArchive(n) \/ Extract(n) \/ Boot(n)
      <4>1. pc["test"] = "run" /\ pc' = pc
        BY <3>2 DEF HashArchive, Extract, Boot, TestStep
      <4>2. pc = [pc EXCEPT !["test"] = "run"]
        BY <1>1, <4>1
      <4>3. \E l : pc' = [pc EXCEPT !["test"] = l]
        BY <4>1, <4>2
      <4> QED
        BY <4>1, <4>3
    <3>3. CASE WriteResults
      BY <3>3 DEF WriteResults, StopTests
    <3> QED
      BY <1>3, <3>1, <3>2, <3>3 DEF Test
  <2>2. Alone' /\ pc["gate"] = "idle" /\ pc'["gate"] = "idle"
    BY <1>1, <2>1, AloneStep
  <2>3. UNCHANGED <<ready, published>>
    BY <1>3 DEF Test, StartTests, HashArchive, Extract, Boot, TestStep, WriteResults
  <2>4. ResultsInv'
    <3>1. CASE WriteResults
      BY <3>1 DEF WriteResults, ResultsInv, PublishInv, TestInv, RowInv
    <3>2. CASE ~WriteResults
      <4>1. results' = results
        BY <1>3, <3>2 DEF Test, StartTests, HashArchive, Extract, Boot, TestStep
      <4> QED
        BY <1>1, <4>1 DEF ResultsInv
    <3> QED
      BY <3>1, <3>2
  <2> QED
    BY <2>2, <2>3, <2>4, GateEnds DEF Announced, PublishInv
<1> QED
  BY <1>2, <1>3

LEMMA WantedParts ==
  ASSUME SourceInv, NEW f \in Presets
  PROVE  OfPreset(f, Wanted) = Provided(f, src[f])
<1>1. Presets \subseteq DOMAIN src
  BY SourceAssumption DEF SourceInv
<1> QED
  BY <1>1, PartsOfMatrix DEF Wanted

LEMMA GateStarts ==
  ASSUME PublishInv, NEW mode, StartGate(mode)
  PROVE  Announced'
<1> USE DEF packager, tester, dist
<1>1. /\ pc["gate"] = "idle" /\ pc'["gate"] = "check"
      /\ UNCHANGED <<src, arch, results, ready, published>>
      /\ gfor' = Wanted /\ gtodo' = Wanted /\ gtests' = results /\ gsums' = <<>>
      /\ Existing = Wanted /\ results # None /\ TestsAccepted
  BY DEF PublishInv, TypeInv, StartGate, MayStart, Goals
<1>2. GateInv'
  <2>1. gfor' = Existing'
    BY <1>1 DEF Existing
  <2>2. DOMAIN results'.rows = gfor' /\ \A n \in gfor' : results'.rows[n].pass
    BY <1>1 DEF TestsAccepted
  <2>3. gfor' \ gtodo' = {}
    BY <1>1
  <2>4. gsums' = [n \in gfor' \ gtodo' |-> arch'[n]]
    BY <1>1, <2>3
  <2>5. results' # None /\ gtests' = results' /\ gtodo' \subseteq gfor'
    BY <1>1
  <2> QED
    BY <2>1, <2>2, <2>3, <2>4, <2>5 DEF GateInv
<1>3. CheckInv'
  <2>1. SourceInv
    BY DEF PublishInv, TypeInv
  <2>2. \A f \in Presets : OfPreset(f, gfor') = Provided(f, src'[f])
    BY <1>1, <2>1, WantedParts
  <2>3. ASSUME NEW f \in Runner PROVE results'.runner[f] = src'[f]
    <3>1. src[f] # 0 /\ results.runner = Snapshot(Runner)
      BY <1>1, <2>1, SourceAssumption DEF SourceInv, TestsAccepted
    <3> QED
      BY <1>1, <3>1, SnapshotDomain
  <2>4. gfor' \ gtodo' = {}
    BY <1>1
  <2> QED
    BY <2>2, <2>3, <2>4 DEF CheckInv
<1>4. ReadyInv' /\ SealInv' /\ PublishedComplete' /\ PublishedTested'
  BY <1>1 DEF PublishInv, ReadyInv, SealInv, Sealed, PublishedComplete, PublishedTested
<1> QED
  BY <1>2, <1>3, <1>4 DEF Announced

\* An archive passes with the sources as they are when it is checked.
LEMMA GateChecks ==
  ASSUME PublishInv, NEW n, CheckArchive(n)
  PROVE  Announced'
<1> USE DEF packager, tester, dist
<1>1. /\ pc["gate"] = "check" /\ n \in gtodo /\ Passes(n) /\ gtodo' = gtodo \ {n}
      /\ gsums' = [m \in DOMAIN gsums \cup {n} |-> IF m = n THEN arch[n] ELSE gsums[m]]
      /\ UNCHANGED <<src, arch, results, ready, published, pc, gfor, gtests, gedited>>
  BY DEF CheckArchive
<1>2. /\ gtests = results /\ gtodo \subseteq gfor
      /\ gsums = [m \in gfor \ gtodo |-> arch[m]]
      /\ \A m \in gfor \ gtodo : results.rows[m].sha = arch[m]
  BY <1>1 DEF PublishInv, GateInv
<1>3. gfor' \ gtodo' = (gfor \ gtodo) \cup {n}
  BY <1>1, <1>2
<1>4. gsums' = [m \in gfor' \ gtodo' |-> arch'[m]]
  BY <1>1, <1>2, <1>3
<1>5. results.rows[n].sha = arch[n] /\ \A f \in DOMAIN arch[n].inputs : arch[n].inputs[f] = src[f]
  BY <1>1, <1>2 DEF Passes, StillMatch
<1>6. GateInv'
  <2>1. \A m \in gfor' \ gtodo' : results'.rows[m].sha = arch'[m]
    BY <1>1, <1>2, <1>3, <1>5
  <2>2. gfor' = Existing'
    BY <1>1 DEF PublishInv, GateInv, Existing
  <2> QED
    BY <1>1, <1>4, <2>1, <2>2 DEF PublishInv, GateInv
<1>7. CheckInv'
  <2>1. \A m \in gfor' \ gtodo' : \A f \in DOMAIN arch'[m].inputs \ gedited' :
           arch'[m].inputs[f] = src'[f]
    BY <1>1, <1>3, <1>5 DEF PublishInv, CheckInv
  <2> QED
    BY <1>1, <2>1 DEF PublishInv, CheckInv
<1>8. ReadyInv' /\ SealInv' /\ PublishedComplete' /\ PublishedTested'
  BY <1>1 DEF PublishInv, ReadyInv, SealInv, Sealed, PublishedComplete, PublishedTested
<1> QED
  BY <1>6, <1>7, <1>8 DEF Announced

\* A step of the gate, past its checks, that changes nothing it has found.
LEMMA GateKeeps ==
  ASSUME PublishInv, pc["gate"] # "idle", pc'["gate"] \in Sealed,
         UNCHANGED <<arch, results, ready, published, gfor, gtodo, gtests, gsums>>
  PROVE  ReadyInv' /\ GateInv' /\ CheckInv' /\ PublishedComplete' /\ PublishedTested'
<1>1. GateInv'
  BY DEF PublishInv, GateInv, Existing
<1> QED
  BY <1>1 DEF PublishInv, ReadyInv, CheckInv, Sealed, PublishedComplete, PublishedTested

LEMMA GateSeals == ASSUME PublishInv, Seal PROVE Announced'
<1> USE DEF packager, tester, dist
<1>1. /\ pc["gate"] = "check" /\ pc'["gate"] \in {"sums", "confirm"} /\ gtodo = {}
      /\ grecord' = [archives |-> gsums, tests |-> results, source |-> Snapshot(Listed)]
      /\ UNCHANGED <<arch, results, ready, published, gfor, gtodo, gtests, gsums, gedited>>
  BY DEF Seal, PublishInv, TypeInv, Goals
<1>2. /\ DOMAIN gsums = gfor /\ \A n \in gfor : gsums[n] = arch[n]
      /\ gfor = Existing
  BY <1>1 DEF PublishInv, GateInv
<1>3. /\ \A f \in Presets \ gedited : OfPreset(f, gfor) = Provided(f, src[f])
      /\ \A n \in gfor : \A f \in DOMAIN arch[n].inputs \ gedited : arch[n].inputs[f] = src[f]
      /\ \A f \in Runner \ gedited : results.runner[f] = src[f]
  BY <1>1 DEF PublishInv, CheckInv
<1>4. \A f \in Presets \cup Runner : f \in Listed /\ src[f] # 0
  BY SourceAssumption DEF PublishInv, TypeInv, SourceInv
<1>5. \A f \in Presets \cup Runner :
        f \in DOMAIN Snapshot(Listed) /\ Snapshot(Listed)[f] = src[f]
  BY <1>4, SnapshotDomain
<1>6. ASSUME NEW n \in gfor, NEW f \in (DOMAIN arch[n].inputs \cap Listed) \ gedited
      PROVE  f \in DOMAIN Snapshot(Listed) /\ Snapshot(Listed)[f] = arch[n].inputs[f]
  <2>1. arch[n] \in Archives
    BY <1>2 DEF Existing, PublishInv, TypeInv, TypeOK
  <2>2. PICK S \in SUBSET Files : arch[n].inputs \in [S -> 1..MaxRev]
    BY <2>1 DEF Archives, Contents
  <2>3. arch[n].inputs[f] = src[f] /\ arch[n].inputs[f] \in 1..MaxRev
    BY <1>3, <2>2
  <2>4. src[f] # 0
    BY <2>3
  <2> QED
    BY <2>3, <2>4, SnapshotDomain
<1>7. Sound(grecord', gedited')
  <2>1. DOMAIN grecord'.archives = gfor /\ grecord'.source = Snapshot(Listed)
        /\ grecord'.tests = results /\ gedited' = gedited
        /\ \A n \in gfor : grecord'.archives[n] = arch[n]
    BY <1>1, <1>2
  <2>2. \A f \in Presets \ gedited : OfPreset(f, gfor) = Provided(f, Snapshot(Listed)[f])
    BY <1>3, <1>5
  <2>3. \A f \in Runner \ gedited : results.runner[f] = Snapshot(Listed)[f]
    BY <1>3, <1>5
  <2>4. Presets \subseteq DOMAIN Snapshot(Listed)
    BY <1>5
  <2> QED
    BY <1>6, <2>1, <2>2, <2>3, <2>4 DEF Sound
<1>8. SealInv'
  BY <1>1, <1>7 DEF SealInv
<1> QED
  BY <1>1, <1>8, GateKeeps DEF Announced, Sealed

LEMMA GateWrites == ASSUME PublishInv, WriteSums \/ WriteNotes PROVE Announced'
<1> USE DEF packager, tester, dist, gate, Goto
<1>1. /\ pc["gate"] \in {"sums", "notes"} /\ pc'["gate"] \in {"notes", "ready"}
      /\ UNCHANGED <<arch, results, ready, published, gfor, gtodo, gtests, gsums, grecord, gedited>>
      /\ pc'["gate"] = "ready" => notes' = gfor
  BY DEF WriteSums, WriteNotes, PublishInv, TypeInv, Goals
<1>2. SealInv'
  BY <1>1 DEF PublishInv, SealInv, Sealed
<1> QED
  BY <1>1, <1>2, GateKeeps DEF Announced, Sealed

LEMMA GateConfirms == ASSUME PublishInv, Confirm PROVE Announced'
<1> USE DEF packager, tester, dist, gate
<1>1. pc["gate"] = "confirm" /\ UNCHANGED <<arch, results, sums, notes, ready, published>>
  BY DEF Confirm
<1>2. CASE Confirmed /\ pc' = [pc EXCEPT !["gate"] = "upload"] /\ UNCHANGED gate
  <2>1. pc'["gate"] = "upload" /\ Confirmed'
    BY <1>1, <1>2 DEF PublishInv, TypeInv, Goals, Confirmed
  <2>2. SealInv'
    BY <1>1, <1>2, <2>1 DEF PublishInv, SealInv, Sealed
  <2> QED
    BY <1>1, <1>2, <2>1, <2>2, GateKeeps DEF Announced, Sealed
<1>3. CASE ~Confirmed /\ StopGate
  <2>1. pc'["gate"] = "idle"
    BY <1>3 DEF StopGate, PublishInv, TypeInv, Goals
  <2> QED
    BY <1>1, <2>1, GateEnds
<1> QED
  BY <1>2, <1>3 DEF Confirm

LEMMA GateRecords == ASSUME PublishInv, WriteReady PROVE Announced'
<1> USE DEF packager, tester, dist, gate
<1>1. /\ pc["gate"] = "ready" /\ pc'["gate"] = "idle" /\ UNCHANGED published
      /\ ready' = [record |-> grecord, notes |-> notes, edited |-> gedited]
  BY DEF WriteReady, StopGate, PublishInv, TypeInv, Goals
<1>2. /\ gtodo = {} /\ grecord.archives = gsums /\ notes = gfor /\ Sound(grecord, gedited)
  BY <1>1 DEF PublishInv, SealInv, Sealed
<1>3. DOMAIN gsums = gfor
  <2>1. gsums = [n \in gfor \ gtodo |-> arch[n]]
    BY <1>1 DEF PublishInv, GateInv
  <2> QED
    BY <1>2, <2>1
<1>4. ReadyInv'
  BY <1>1, <1>2, <1>3 DEF ReadyInv
<1> QED
  BY <1>1, <1>4 DEF Announced, PublishInv, GateInv, CheckInv, SealInv, Sealed, PublishedComplete,
    PublishedTested

\* What the gate knows when it uploads: its record and the one on disk are equal,
\* and what either gate has found holds of it.
LEMMA AtUpload ==
  ASSUME PublishInv, pc["gate"] = "upload"
  PROVE  /\ ready # None /\ ready.record = grecord /\ sums = gsums /\ notes = gfor
         /\ gfor = Existing /\ gsums = [n \in Existing |-> arch[n]]
         /\ grecord.archives = gsums /\ grecord.tests = results
         /\ Sound(grecord, ready.edited \cap gedited)
<1>1. /\ ready # None /\ ready.record = grecord /\ sums = gsums /\ ready.notes = notes
      /\ gtodo = {} /\ grecord.archives = gsums /\ grecord.tests = results
      /\ Sound(grecord, gedited)
  BY DEF PublishInv, SealInv, Sealed, Confirmed
<1>2. gfor = Existing /\ gsums = [n \in gfor \ gtodo |-> arch[n]]
  BY DEF PublishInv, GateInv
<1>3. gsums = [n \in Existing |-> arch[n]] /\ DOMAIN gsums = gfor
  BY <1>1, <1>2
<1>4. notes = gfor /\ Sound(grecord, ready.edited)
  BY <1>1, <1>3 DEF PublishInv, ReadyInv
<1> QED
  BY <1>1, <1>2, <1>3, <1>4, SoundTwice

LEMMA GateUploads == ASSUME PublishInv, Upload PROVE Announced'
<1> USE DEF packager, tester, dist, gate
<1>1. /\ pc["gate"] = "upload" /\ pc'["gate"] = "idle" /\ UNCHANGED ready
      /\ published' = [archives |-> [n \in Existing |-> arch[n]], sums |-> sums, notes |-> notes,
                       record |-> ready.record, tests |-> results,
                       edited |-> ready.edited \cap gedited]
  BY DEF Upload, StopGate, PublishInv, TypeInv, Goals
<1>2. /\ ready.record = grecord /\ sums = gsums /\ notes = gfor
      /\ gfor = Existing /\ gsums = [n \in Existing |-> arch[n]]
      /\ grecord.archives = gsums /\ grecord.tests = results
      /\ Sound(grecord, ready.edited \cap gedited)
  BY <1>1, AtUpload
<1>3. /\ \A n \in Existing : results.rows[n].pass /\ results.rows[n].sha = arch[n]
      /\ results # None /\ DOMAIN results.rows = Existing
  BY <1>1 DEF PublishInv, GateInv, SealInv, Sealed
<1>4. PublishedComplete'
  <2>1. ASSUME (ready.edited \cap gedited) \cap Presets = {}
        PROVE  Existing = Matrix(grecord.source)
    <3>1. \A n \in Existing : n.preset \in Presets
      BY DEF Existing, Names
    <3>2. DOMAIN grecord.archives = Existing
      BY <1>2
    <3>3. \A f \in Presets : OfPreset(f, Existing) = Provided(f, grecord.source[f])
      BY <1>2, <2>1, <3>2 DEF Sound
    <3>4. Presets \subseteq DOMAIN grecord.source
      BY <1>2 DEF Sound
    <3> QED
      BY <3>1, <3>3, <3>4, MatrixParts
  <2>2. published'.notes = DOMAIN published'.archives /\ DOMAIN published'.archives = Existing
    BY <1>1, <1>2
  <2>3. /\ published'.sums = published'.archives /\ published'.record = grecord
        /\ published'.record.archives = published'.archives
        /\ published'.edited = ready.edited \cap gedited
    BY <1>1, <1>2
  <2> QED
    BY <2>1, <2>2, <2>3 DEF PublishedComplete
<1>5. PublishedTested'
  <2>1. ASSUME NEW n \in Existing
        PROVE  results.rows[n].pass /\ results.rows[n].tried = arch[n]
    BY <1>3, <2>1 DEF PublishInv, ResultsInv
  <2>2. \A f \in Runner \ (ready.edited \cap gedited) : results.runner[f] = grecord.source[f]
    BY <1>2 DEF Sound
  <2>3. /\ published'.tests = results /\ published'.record = grecord
        /\ published'.edited = ready.edited \cap gedited
        /\ DOMAIN published'.archives = Existing /\ \A n \in Existing : published'.archives[n] = arch[n]
    BY <1>1, <1>2
  <2> QED
    BY <2>1, <2>2, <2>3 DEF PublishedTested
<1>6. ReadyInv'
  BY <1>1 DEF PublishInv, ReadyInv
<1> QED
  BY <1>1, <1>4, <1>5, <1>6 DEF Announced, GateInv, CheckInv, SealInv, Sealed

LEMMA GateStep == ASSUME PublishInv, Gate PROVE Announced'
<1>1. ASSUME NEW n, RefuseArchive(n) PROVE Announced'
  <2>1. pc'["gate"] = "idle" /\ UNCHANGED <<ready, published>>
    BY <1>1 DEF RefuseArchive, StopGate, dist, PublishInv, TypeInv, Goals
  <2> QED
    BY <2>1, GateEnds
<1> QED
  BY <1>1, GateStarts, GateChecks, GateSeals, GateWrites, GateRecords, GateConfirms, GateUploads DEF Gate

\* Only the gate is at work when it takes a step, and it leaves the results.
LEMMA GateAlone == ASSUME OneGoal, PublishInv, Gate PROVE Alone' /\ ResultsInv'
<1> USE DEF Goto, dist, packager, tester, gate
<1>1. /\ pc \in [Goals -> Locations] /\ Alone /\ ResultsInv /\ "gate" \in Goals
  BY DEF PublishInv, TypeInv, Goals
<1>2. \E l : pc' = [pc EXCEPT !["gate"] = l] /\ (pc["gate"] # "idle" \/ MayStart("gate"))
  <2>1. CASE \E mode \in {"write", "recheck"} : StartGate(mode)
    BY <2>1 DEF StartGate
  <2>2. CASE \E n \in Names : CheckArchive(n)
    <3>1. pc["gate"] = "check" /\ pc' = pc
      BY <2>2 DEF CheckArchive
    <3>2. pc = [pc EXCEPT !["gate"] = "check"]
      BY <1>1, <3>1
    <3>3. \E l : pc' = [pc EXCEPT !["gate"] = l]
      BY <3>1, <3>2
    <3> QED
      BY <3>1, <3>3
  <2>3. CASE \E n \in Names : RefuseArchive(n)
    BY <2>3 DEF RefuseArchive, StopGate
  <2>4. CASE Seal \/ WriteSums \/ WriteNotes \/ WriteReady
    BY <2>4 DEF Seal, WriteSums, WriteNotes, WriteReady, StopGate
  <2>5. CASE Confirm \/ Upload
    BY <2>5 DEF Confirm, Upload, StopGate
  <2> QED
    BY <2>1, <2>2, <2>3, <2>4, <2>5 DEF Gate
<1>3. results' = results
  BY DEF Gate, StartGate, CheckArchive, RefuseArchive, Seal, WriteSums, WriteNotes, WriteReady,
    Confirm, Upload
<1> QED
  BY <1>1, <1>2, <1>3, AloneStep DEF ResultsInv

\* An edit takes its file from what the gate has found, and what it has written
\* is not touched.
LEMMA PublishEdit == ASSUME PublishInv, NEW f \in Editable, Edit(f) PROVE Announced'
<1> USE DEF packager, tester, gate, dist
<1>1. PICK r : src' = [src EXCEPT ![f] = r]
  BY DEF Edit
<1>2. /\ UNCHANGED <<arch, results, sums, notes, ready, published, pc, gfor, gtodo, gtests, gsums,
                     grecord>>
      /\ gedited' = IF pc["gate"] = "check" THEN gedited \cup {f} ELSE gedited
  BY DEF Edit
<1>3. ASSUME NEW g, g \in Files, g # f PROVE src'[g] = src[g]
  BY <1>1, <1>3 DEF PublishInv, TypeInv, SourceInv
<1>4. GateInv'
  BY <1>2 DEF PublishInv, GateInv, Existing
<1>5. CheckInv'
  <2> SUFFICES ASSUME pc["gate"] = "check" PROVE CheckInv'
    BY <1>2 DEF CheckInv
  <2>1. gedited' = gedited \cup {f} /\ Presets \subseteq Files /\ Runner \subseteq Files
    BY <1>2, SourceAssumption
  <2>2. ASSUME NEW n \in gfor \ gtodo, NEW g \in DOMAIN arch[n].inputs \ gedited'
        PROVE  arch[n].inputs[g] = src'[g]
    <3>1. arch[n] \in Archives
      BY DEF PublishInv, GateInv, Existing, TypeInv, TypeOK
    <3>2. g \in Files
      BY <3>1 DEF Archives, Contents
    <3>3. arch[n].inputs[g] = src[g]
      BY <2>1 DEF PublishInv, CheckInv
    <3> QED
      BY <1>3, <2>1, <3>2, <3>3
  <2> QED
    BY <1>2, <1>3, <2>1, <2>2 DEF PublishInv, CheckInv
<1>6. SealInv'
  BY <1>2 DEF PublishInv, SealInv, Sealed, Confirmed
<1> QED
  BY <1>2, <1>4, <1>5, <1>6 DEF Announced, PublishInv, ReadyInv, PublishedComplete, PublishedTested

LEMMA PublishCrash ==
  ASSUME OneGoal, PublishInv, NEW g \in Goals, Crash(g)
  PROVE  Announced' /\ Alone' /\ ResultsInv'
<1> USE DEF packager, tester, gate, dist
<1>1. /\ UNCHANGED <<ready, published, results>> /\ pc' = [pc EXCEPT ![g] = "idle"]
      /\ pc[g] # "idle" /\ pc \in [Goals -> Locations] /\ "gate" \in Goals
  BY DEF Crash, StopPackaging, StopTests, StopGate, PublishInv, TypeInv, Goals
<1>2. Alone' /\ \A h \in Goals \ {g} : pc'[h] = "idle"
  BY <1>1, AloneStep DEF PublishInv
<1>3. pc'["gate"] = "idle"
  BY <1>1, <1>2
<1> QED
  BY <1>1, <1>2, <1>3, GateEnds DEF PublishInv, ResultsInv

LEMMA PublishStep == ASSUME OneGoal, PublishInv, [Next]_vars PROVE PublishInv'
<1>1. TypeInv' /\ TestInv'
  <2>1. TypeInv /\ TestInv
    BY DEF PublishInv
  <2> QED
    BY <2>1, TypeStep, TestStepInv
<1>2. CASE UNCHANGED vars
  <2>1. UNCHANGED <<src, arch, results, sums, notes, ready, published, pc, gate>>
    BY <1>2 DEF vars, dist
  <2>2. GateInv' /\ ReadyInv' /\ CheckInv' /\ SealInv'
    BY <2>1 DEF PublishInv, GateInv, ReadyInv, CheckInv, SealInv, Existing, gate, Confirmed
  <2> QED
    BY <1>1, <2>1, <2>2 DEF PublishInv, Alone, ResultsInv, PublishedComplete, PublishedTested
<1>3. CASE \E f \in Editable : Edit(f)
  <2>1. UNCHANGED <<results, pc>>
    BY <1>3 DEF Edit, dist, tester
  <2> QED
    BY <1>1, <1>3, <2>1, PublishEdit DEF PublishInv, Announced, Alone, ResultsInv
<1>4. CASE Package \/ Test
  BY <1>1, <1>4, PublishOthers
<1>5. CASE Gate
  BY <1>1, <1>5, GateStep, GateAlone DEF PublishInv, Announced
<1>6. CASE \E g \in Goals : Crash(g)
  BY <1>1, <1>6, PublishCrash DEF PublishInv, Announced
<1> QED
  BY <1>2, <1>3, <1>4, <1>5, <1>6 DEF Next

LEMMA PublishInit == Init => PublishInv
<1> SUFFICES ASSUME Init PROVE PublishInv
  OBVIOUS
<1>1. pc["gate"] = "idle" /\ Alone
  BY DEF Init, Goals, Alone
<1>2. ready = None /\ results = None /\ published = None
  BY DEF Init
<1> QED
  BY <1>1, <1>2, TypeInit, TestInit DEF PublishInv, ReadyInv, GateInv, CheckInv, SealInv, Sealed, ResultsInv,
    PublishedComplete, PublishedTested

\* Whatever is published, listed in SHA256SUMS, announced in the notes and
\* provided by the presets of the readiness record is one set of archives, for
\* any presets and any edits, also those that are taken back, when goals run one
\* at a time; the presets count unless one was edited in both gates.
THEOREM CompletePublished == ASSUME OneGoal PROVE Spec => []PublishedComplete
<1>1. PublishInv /\ [Next]_vars => PublishInv'
  BY PublishStep
<1>2. PublishInv => PublishedComplete
  BY DEF PublishInv
<1> QED
  BY <1>1, <1>2, PublishInit, PTL DEF Spec

\* Every archive that is published was booted, itself, by the runner that the
\* readiness record lists, and passed, also when sources are edited, and edits
\* taken back, while the gate reads them, unless it was the runner in both gates.
THEOREM TestedPublished == ASSUME OneGoal PROVE Spec => []PublishedTested
<1>1. PublishInv /\ [Next]_vars => PublishInv'
  BY PublishStep
<1>2. PublishInv => PublishedTested
  BY DEF PublishInv
<1> QED
  BY <1>1, <1>2, PublishInit, PTL DEF Spec

-----------------------------------------------------------------------------
(***************************************************************************)
(* What archives are made of: the content a manifest records for an input  *)
(* is one that the build can have read.                                    *)
(***************************************************************************)
Honest(x) == \A f \in DOMAIN x.inputs : x.inputs[f] \in x.made[f]

MadeInv ==
  /\ \A n \in Names : arch[n] # None => Honest(arch[n])
  /\ pc["package"] = "record" =>
       DOMAIN cand.made = InputsOf(name) /\ \A f \in InputsOf(name) : src[f] \in cand.made[f]
  /\ Pending => Honest(cand)

LEMMA MadeKept ==
  ASSUME MadeInv, UNCHANGED <<src, arch, cand, name>>, pc'["package"] = pc["package"]
  PROVE  MadeInv'
BY DEF MadeInv, Honest, Pending

LEMMA GatePc == ASSUME pc \in [Goals -> Locations], Gate PROVE pc'["package"] = pc["package"]
<1> USE DEF Goto, Goals
<1>1. CASE (\E mode \in {"write", "recheck"} : StartGate(mode))
  BY <1>1 DEF StartGate
<1>2. CASE \E n \in Names : CheckArchive(n) \/ RefuseArchive(n)
  BY <1>2 DEF CheckArchive, RefuseArchive, StopGate
<1>3. CASE Seal \/ WriteSums \/ WriteNotes \/ WriteReady
  BY <1>3 DEF Seal, WriteSums, WriteNotes, WriteReady, StopGate
<1>4. CASE Confirm \/ Upload
  BY <1>4 DEF Confirm, Upload, StopGate
<1> QED
  BY <1>1, <1>2, <1>3, <1>4 DEF Gate

LEMMA MadeStep == ASSUME TypeInv, MadeInv, [Next]_vars PROVE MadeInv'
<1> USE DEF Goto, Goals, packager, tester, gate, dist
<1>1. pc \in [Goals -> Locations] /\ SourceInv /\ CandInv /\ DOMAIN arch = Names
  BY DEF TypeInv
<1>2. CASE UNCHANGED vars
  BY <1>2, MadeKept DEF vars
<1>3. ASSUME NEW f \in Editable, Edit(f) PROVE MadeInv'
  <2>1. PICK r : /\ src' = [src EXCEPT ![f] = r] /\ UNCHANGED <<arch, name, pc>>
                 /\ cand' = IF pc["package"] = "record" THEN ReadLater(f, r) ELSE cand
    BY <1>3 DEF Edit
  <2>2. CASE pc["package"] = "record"
    <3>1. DOMAIN cand.made = InputsOf(name) /\ \A g \in InputsOf(name) : src[g] \in cand.made[g]
      BY <2>2 DEF MadeInv
    <3>2. cand'.made =
            [g \in DOMAIN cand.made |-> IF g = f THEN cand.made[g] \cup {r} ELSE cand.made[g]]
      BY <2>1, <2>2, <1>1 DEF ReadLater, CandInv
    <3>3. \A g \in InputsOf(name) : src'[g] = IF g = f THEN r ELSE src[g]
      BY <1>1, <2>1, <2>2, NamesTyped DEF SourceInv, CandInv
    <3>4. DOMAIN cand'.made = InputsOf(name) /\ \A g \in InputsOf(name) : src'[g] \in cand'.made[g]
      BY <3>1, <3>2, <3>3
    <3> QED
      BY <2>1, <2>2, <3>4 DEF MadeInv, Honest, Pending, InputsOf
  <2>3. CASE pc["package"] # "record"
    BY <2>1, <2>3 DEF MadeInv, Honest, Pending
  <2> QED
    BY <2>2, <2>3
<1>4. CASE Package
  <2>1. CASE \E S \in {Wanted} \cup {{n} : n \in Wanted}, r \in BOOLEAN : StartPackaging(S, r)
    BY <1>1, <2>1 DEF StartPackaging, MadeInv, Honest, Pending
  <2>2. CASE \E n \in Names : Reuse(n)
    BY <1>1, <2>2, MadeKept DEF Reuse
  <2>3. ASSUME NEW n \in Names, Compile(n) PROVE MadeInv'
    <3>1. /\ cand'.made = [f \in InputsOf(n) |-> {src[f]}] /\ UNCHANGED <<src, arch>>
          /\ name'.preset = n.preset /\ name'.variant = n.variant /\ pc'["package"] = "record"
      BY <1>1, <2>3 DEF Compile
    <3>2. InputsOf(name)' = InputsOf(n)
      BY <3>1 DEF InputsOf
    <3>3. /\ DOMAIN cand'.made = InputsOf(name)'
          /\ \A f \in InputsOf(name)' : src'[f] \in cand'.made[f]
      BY <3>1, <3>2
    <3> QED
      BY <3>1, <3>3 DEF MadeInv, Honest, Pending
  <2>4. CASE Record
    <3>1. /\ pc["package"] = "record" /\ pc'["package"] = "supersede"
          /\ cand'.made = cand.made /\ cand'.inputs = Snapshot(InputsOf(name))
          /\ UNCHANGED <<arch, name>>
      BY <1>1, <2>4 DEF Record
    <3>2. \A f \in InputsOf(name) : src[f] \in cand.made[f]
      BY <3>1 DEF MadeInv
    <3>3. Honest(cand)'
      BY <3>1, <3>2, SnapshotDomain DEF Honest
    <3> QED
      BY <3>1, <3>3 DEF MadeInv, Honest
  <2>5. CASE Supersede \/ Move
    BY <1>1, <2>5 DEF Supersede, Move, MadeInv, Honest, Pending
  <2>6. CASE Replace
    <3>1. /\ Pending /\ pc'["package"] = "report" /\ arch' = [arch EXCEPT ![name] = cand]
          /\ UNCHANGED <<name, cand>>
      BY <1>1, <2>6 DEF Replace, Pending
    <3>2. \A n \in Names : arch'[n] = IF n = name THEN cand ELSE arch[n]
      BY <1>1, <3>1
    <3>3. Honest(cand)
      BY <3>1 DEF MadeInv
    <3> QED
      BY <3>1, <3>2, <3>3 DEF MadeInv, Honest, Pending
  <2>7. CASE Report \/ FinishPackaging
    BY <1>1, <2>7 DEF Report, FinishPackaging, StopPackaging, MadeInv, Honest, Pending
  <2> QED
    BY <1>4, <2>1, <2>2, <2>3, <2>4, <2>5, <2>6, <2>7 DEF Package
<1>5. CASE Test
  <2>1. UNCHANGED <<src, arch, cand, name>> /\ pc'["package"] = pc["package"]
    BY <1>1, <1>5 DEF Test, StartTests, HashArchive, Extract, Boot, TestStep, WriteResults, StopTests
  <2> QED
    BY <2>1, MadeKept
<1>6. CASE Gate
  <2>1. UNCHANGED <<src, arch, cand, name>>
    BY <1>6 DEF Gate, StartGate, CheckArchive, RefuseArchive, Seal, WriteSums, WriteNotes,
      WriteReady, Confirm, Upload
  <2>2. pc'["package"] = pc["package"]
    BY <1>1, <1>6, GatePc
  <2> QED
    BY <2>1, <2>2, MadeKept
<1>7. ASSUME NEW g \in Goals, Crash(g) PROVE MadeInv'
  <2>1. CASE g = "package"
    BY <1>1, <1>7, <2>1 DEF Crash, StopPackaging, MadeInv, Honest, Pending
  <2>2. CASE g # "package"
    BY <1>1, <1>7, <2>2, MadeKept DEF Crash, StopTests, StopGate
  <2> QED
    BY <2>1, <2>2
<1> QED
  BY <1>2, <1>3, <1>4, <1>5, <1>6, <1>7 DEF Next

LEMMA MadeInit == Init => MadeInv
BY DEF Init, MadeInv, Pending, Goals

LEMMA CoherentStep ==
  ASSUME PublishInv, MadeInv, PublishedCoherent, [Next]_vars
  PROVE  PublishedCoherent'
<1> USE DEF packager, tester, gate, dist
<1>1. CASE UNCHANGED published
  BY <1>1 DEF PublishedCoherent
<1>2. CASE Upload
  <2>1. /\ pc["gate"] = "upload" /\ published'.record = ready.record
        /\ published'.archives = [n \in Existing |-> arch[n]]
        /\ published'.edited = ready.edited \cap gedited
    BY <1>2 DEF Upload
  <2>2. /\ ready.record = grecord /\ grecord.archives = [n \in Existing |-> arch[n]]
        /\ Sound(grecord, ready.edited \cap gedited)
    BY <2>1, AtUpload
  <2>3. ASSUME NEW n \in Existing,
               NEW f \in (DOMAIN arch[n].inputs \cap Listed) \ (ready.edited \cap gedited)
        PROVE  f \in DOMAIN grecord.source /\ grecord.source[f] \in arch[n].made[f]
    <3>1. arch[n].inputs[f] \in arch[n].made[f]
      BY DEF MadeInv, Honest, Existing
    <3>2. f \in DOMAIN grecord.source /\ grecord.source[f] = arch[n].inputs[f]
      BY <2>2 DEF Sound
    <3> QED
      BY <3>1, <3>2
  <2>4. DOMAIN published'.archives = Existing /\ \A n \in Existing : published'.archives[n] = arch[n]
    BY <2>1
  <2> QED
    BY <2>1, <2>2, <2>3, <2>4 DEF PublishedCoherent
<1>3. CASE ~Upload
  <2>1. published' = published
    <3>1. CASE Package
      BY <3>1 DEF Package, StartPackaging, Reuse, Compile, Record, Supersede, Move, Replace, Report,
        FinishPackaging
    <3>2. CASE Test
      BY <3>2 DEF Test, StartTests, HashArchive, Extract, Boot, TestStep, WriteResults
    <3>3. CASE Gate
      BY <1>3, <3>3 DEF Gate, StartGate, CheckArchive, RefuseArchive, Seal, WriteSums, WriteNotes,
        WriteReady, Confirm
    <3>4. CASE (\E f \in Editable : Edit(f)) \/ (\E g \in Goals : Crash(g))
      BY <3>4 DEF Edit, Crash
    <3>5. CASE UNCHANGED vars
      BY <3>5 DEF vars
    <3> QED
      BY <3>1, <3>2, <3>3, <3>4, <3>5 DEF Next
  <2> QED
    BY <1>1, <2>1
<1> QED
  BY <1>2, <1>3

\* For every input of a published archive the readiness record lists a content
\* that the build can have read, although archives and sources are read one after
\* another and sources are edited, and edits taken back, meanwhile; files edited
\* in both gates excepted.
THEOREM CoherentPublished == ASSUME OneGoal PROVE Spec => []PublishedCoherent
<1> DEFINE Inv == PublishInv /\ MadeInv /\ PublishedCoherent
<1>1. Init => Inv
  BY PublishInit, MadeInit DEF Init, PublishedCoherent
<1>2. Inv /\ [Next]_vars => Inv'
  BY PublishStep, MadeStep, CoherentStep DEF PublishInv
<1>3. Inv => PublishedCoherent
  OBVIOUS
<1> QED
  BY <1>1, <1>2, <1>3, PTL DEF Spec

-----------------------------------------------------------------------------
\* A package's directory describes its archive, except for the one package
\* whose directory is in place and whose archive is not.
ResumeInv ==
  /\ \A n \in Names : dir[n] # None /\ ~(pc["package"] = "replace" /\ n = name) => dir[n] = arch[n]
  /\ pc["package"] = "replace" => dir[name] = cand

LEMMA ResumeKept ==
  ASSUME ResumeInv, UNCHANGED <<dir, arch, cand, name>>, pc'["package"] = pc["package"]
  PROVE  ResumeInv'
BY DEF ResumeInv

LEMMA ResumeStep ==
  ASSUME <<"package", "replace">> \notin CrashPoints, TypeInv, ResumeInv, [Next]_vars
  PROVE  ResumeInv'
<1> USE DEF Goto, Goals, packager, tester, gate, dist
<1>1. pc \in [Goals -> Locations] /\ CandInv /\ DOMAIN arch = Names /\ DOMAIN dir = Names
  BY DEF TypeInv
<1>2. CASE UNCHANGED vars
  BY <1>2, ResumeKept DEF vars
<1>7. ASSUME NEW f \in Editable, Edit(f) PROVE ResumeInv'
  <2>1. UNCHANGED <<dir, arch, name, pc>> /\ (pc["package"] = "record" \/ cand' = cand)
    BY <1>7 DEF Edit
  <2> QED
    BY <2>1 DEF ResumeInv
<1>3. CASE Package
  <2>1. CASE \E S \in {Wanted} \cup {{n} : n \in Wanted}, r \in BOOLEAN : StartPackaging(S, r)
    BY <1>1, <2>1 DEF StartPackaging, MayStart, ResumeInv
  <2>2. CASE \E n \in Names : Reuse(n) \/ Compile(n)
    BY <1>1, <2>2 DEF Reuse, Compile, ResumeInv
  <2>3. CASE Record \/ Report \/ FinishPackaging
    BY <1>1, <2>3 DEF Record, Report, FinishPackaging, StopPackaging, ResumeInv
  <2>4. CASE Supersede
    BY <1>1, <2>4 DEF Supersede, ResumeInv
  <2>5. CASE Move
    <3>1. /\ pc["package"] = "move" /\ pc'["package"] = "replace" /\ name \in Names
          /\ dir' = [dir EXCEPT ![name] = cand] /\ UNCHANGED <<arch, name, cand>>
      BY <1>1, <2>5 DEF Move, CandInv
    <3>2. \A n \in Names : dir'[n] = IF n = name THEN cand ELSE dir[n]
      BY <1>1, <3>1
    <3> QED
      BY <3>1, <3>2 DEF ResumeInv
  <2>6. CASE Replace
    <3>1. /\ pc["package"] = "replace" /\ pc'["package"] = "report" /\ name \in Names
          /\ arch' = [arch EXCEPT ![name] = cand] /\ UNCHANGED <<dir, name, cand>>
      BY <1>1, <2>6 DEF Replace, CandInv
    <3>2. \A n \in Names : arch'[n] = IF n = name THEN cand ELSE arch[n]
      BY <1>1, <3>1
    <3> QED
      BY <3>1, <3>2 DEF ResumeInv
  <2> QED
    BY <1>3, <2>1, <2>2, <2>3, <2>4, <2>5, <2>6 DEF Package
<1>4. CASE Test
  <2>1. UNCHANGED <<dir, arch, cand, name>> /\ pc'["package"] = pc["package"]
    BY <1>1, <1>4 DEF Test, StartTests, HashArchive, Extract, Boot, TestStep, WriteResults, StopTests
  <2> QED
    BY <2>1, ResumeKept
<1>5. CASE Gate
  <2>1. UNCHANGED <<dir, arch, cand, name>>
    BY <1>5 DEF Gate, StartGate, CheckArchive, RefuseArchive, Seal, WriteSums, WriteNotes,
      WriteReady, Confirm, Upload
  <2>2. pc'["package"] = pc["package"]
    BY <1>1, <1>5, GatePc
  <2> QED
    BY <2>1, <2>2, ResumeKept
<1>6. ASSUME NEW g \in Goals, Crash(g) PROVE ResumeInv'
  <2>1. CASE g = "package"
    <3>1. pc["package"] # "replace" /\ pc'["package"] = "idle" /\ UNCHANGED <<dir, arch>>
      BY <1>1, <1>6, <2>1 DEF Crash, StopPackaging
    <3> QED
      BY <3>1 DEF ResumeInv
  <2>2. CASE g # "package"
    BY <1>1, <1>6, <2>2, ResumeKept DEF Crash, StopTests, StopGate
  <2> QED
    BY <2>1, <2>2
<1> QED
  BY <1>2, <1>3, <1>4, <1>5, <1>6, <1>7 DEF Next

\* A resumed build that skips a package leaves an archive that was made of the
\* recorded, still current inputs, whatever was killed before, unless that was
\* between the move of the directory and the replacement of the archive.
THEOREM ResumeCorrect ==
  ASSUME <<"package", "replace">> \notin CrashPoints PROVE Spec => ResumeSound
<1> DEFINE Inv == TypeInv /\ ResumeInv
<1>1. Init => Inv
  BY TypeInit DEF Init, ResumeInv, Goals
<1>2. Inv /\ [Next]_vars => Inv'
  BY TypeStep, ResumeStep
<1>3. ASSUME Inv, NEW n \in Names, Reuse(n) PROVE StillMatch(arch[n])
  <2>1. pc["package"] = "next" /\ dir[n] # None /\ StillMatch(dir[n])
    BY <1>3 DEF Reuse
  <2>2. dir[n] = arch[n]
    BY <1>3, <2>1 DEF ResumeInv
  <2> QED
    BY <2>1, <2>2
<1>4. Inv /\ [Next]_vars => [\A n \in Names : Reuse(n) => StillMatch(arch[n])]_vars
  BY <1>3
<1> QED
  BY <1>1, <1>2, <1>4, PTL DEF Spec, ResumeSound

=============================================================================
