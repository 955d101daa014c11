--------------------------- MODULE FirmwareProofs ---------------------------
(***************************************************************************)
(* Proofs about Firmware for any presets, goals and revisions.  Where make *)
(* is, is told by the goal and by how many steps of it are left: the same  *)
(* step of different goals, or of one, relies on different things.         *)
(***************************************************************************)
EXTENDS Firmware, TLAPS

\* The steps of a goal, by its name, and the lists they are put together from.
Steps(g) == IF g = "build" THEN Build ELSE Goals[g]
StepNames ==
  {"clear", "stamp", "defconfig", "kernel", "pack", "embed", "invalidate", "pending", "compile", "link", "commit"}
GoalNames == DOMAIN Goals \cup {"build"}

\* What is left of the goal is an end of its steps.
TodoInv ==
  /\ todo \in Seq(StepNames)
  /\ todo # <<>> =>
       /\ goal \in GoalNames /\ Len(todo) \in 1..Len(Steps(goal))
       /\ \A j \in 1..Len(todo) : todo[j] = Steps(goal)[Len(Steps(goal)) - Len(todo) + j]

Linux == <<"clear", "stamp", "defconfig", "kernel">>
Pack == <<"pack">>
Install == <<"embed", "kernel">>
Opensbi == <<"invalidate", "pending", "compile", "link", "commit">>

\* The steps of the goals of the Makefile, one by one and of `make build`.
LEMMA GoalLists ==
  /\ DOMAIN Goals = {"build_linux", "make_initramfs_tiny_shell", "install_initramfs", "build_opensbi_with_kernel"}
  /\ Goals["build_linux"] = Linux /\ Goals.build_linux = Linux
  /\ Goals["make_initramfs_tiny_shell"] = Pack /\ Goals.make_initramfs_tiny_shell = Pack
  /\ Goals["install_initramfs"] = Install /\ Goals.install_initramfs = Install
  /\ Goals["build_opensbi_with_kernel"] = Opensbi /\ Goals.build_opensbi_with_kernel = Opensbi
BY DEF Goals, Linux, Pack, Install, Opensbi

\* What the lists hold.
LEMMA Lists ==
  /\ Linux \in Seq(StepNames) /\ Len(Linux) = 4
  /\ Linux[1] = "clear" /\ Linux[2] = "stamp" /\ Linux[3] = "defconfig" /\ Linux[4] = "kernel"
  /\ Pack \in Seq(StepNames) /\ Len(Pack) = 1 /\ Pack[1] = "pack"
  /\ Install \in Seq(StepNames) /\ Len(Install) = 2 /\ Install[1] = "embed" /\ Install[2] = "kernel"
  /\ Opensbi \in Seq(StepNames) /\ Len(Opensbi) = 5
  /\ Opensbi[1] = "invalidate" /\ Opensbi[2] = "pending" /\ Opensbi[3] = "compile"
  /\ Opensbi[4] = "link" /\ Opensbi[5] = "commit"
<1>1. {"clear", "stamp", "defconfig", "kernel", "pack", "embed", "invalidate", "pending", "compile", "link", "commit"}
        \subseteq StepNames
  BY DEF StepNames
<1>2. /\ Linux \in Seq(StepNames) /\ Len(Linux) = 4
      /\ Linux[1] = "clear" /\ Linux[2] = "stamp" /\ Linux[3] = "defconfig" /\ Linux[4] = "kernel"
  BY <1>1 DEF Linux
<1>3. Pack \in Seq(StepNames) /\ Len(Pack) = 1 /\ Pack[1] = "pack"
  BY <1>1 DEF Pack
<1>4. Install \in Seq(StepNames) /\ Len(Install) = 2 /\ Install[1] = "embed" /\ Install[2] = "kernel"
  BY <1>1 DEF Install
<1>5. /\ Opensbi \in Seq(StepNames) /\ Len(Opensbi) = 5
      /\ Opensbi[1] = "invalidate" /\ Opensbi[2] = "pending" /\ Opensbi[3] = "compile"
      /\ Opensbi[4] = "link" /\ Opensbi[5] = "commit"
  BY <1>1 DEF Opensbi
<1> QED BY <1>2, <1>3, <1>4, <1>5

\* Their lengths alone, for leaves that need no more.
LEMMA ListLengths ==
  /\ Linux \in Seq(StepNames) /\ Len(Linux) = 4 /\ Pack \in Seq(StepNames) /\ Len(Pack) = 1
  /\ Install \in Seq(StepNames) /\ Len(Install) = 2 /\ Opensbi \in Seq(StepNames) /\ Len(Opensbi) = 5
BY Lists

\* Where the elements of two lists are in their concatenation.
LEMMA Joined ==
  ASSUME NEW u \in Seq(StepNames), NEW w \in Seq(StepNames)
  PROVE  /\ u \o w \in Seq(StepNames) /\ Len(u \o w) = Len(u) + Len(w)
         /\ \A i \in 1..Len(u) : (u \o w)[i] = u[i]
         /\ \A i \in 1..Len(w) : (u \o w)[Len(u) + i] = w[i]
OBVIOUS

\* `make build` takes twelve steps; the kernel is compiled in two of them.
LEMMA BuildSteps ==
  /\ Build \in Seq(StepNames) /\ Len(Build) = 12
  /\ Build[1] = "clear" /\ Build[2] = "stamp" /\ Build[3] = "defconfig" /\ Build[4] = "kernel"
  /\ Build[5] = "pack" /\ Build[6] = "embed" /\ Build[7] = "kernel" /\ Build[8] = "invalidate"
  /\ Build[9] = "pending" /\ Build[10] = "compile" /\ Build[11] = "link" /\ Build[12] = "commit"
<1> DEFINE a == Linux \o Pack
           b == a \o Install
           c == b \o Opensbi
<1>1. Build = c
  BY GoalLists DEF Build
<1>2. a \in Seq(StepNames) /\ Len(a) = Len(Linux) + Len(Pack)
      /\ (\A i \in 1..Len(Linux) : a[i] = Linux[i]) /\ \A i \in 1..Len(Pack) : a[Len(Linux) + i] = Pack[i]
  BY ListLengths, Joined
<1>3. Len(a) = 5
  BY <1>2, ListLengths
<1> HIDE DEF a
<1>4. b \in Seq(StepNames) /\ Len(b) = Len(a) + Len(Install)
      /\ (\A i \in 1..Len(a) : b[i] = a[i]) /\ \A i \in 1..Len(Install) : b[Len(a) + i] = Install[i]
  BY <1>2, ListLengths, Joined
<1>5. Len(b) = 7
  BY <1>3, <1>4, ListLengths
<1> HIDE DEF b
<1>6. c \in Seq(StepNames) /\ Len(c) = Len(b) + Len(Opensbi)
      /\ (\A i \in 1..Len(b) : c[i] = b[i]) /\ \A i \in 1..Len(Opensbi) : c[Len(b) + i] = Opensbi[i]
  BY <1>4, ListLengths, Joined
<1>7. Len(c) = 12
  BY <1>5, <1>6, ListLengths
<1> HIDE DEF c
<1>8. /\ 1 \in 1..4 /\ 2 \in 1..4 /\ 3 \in 1..4 /\ 4 \in 1..4 /\ 1 \in 1..1 /\ 1 \in 1..2 /\ 2 \in 1..2
      /\ 1 \in 1..5 /\ 2 \in 1..5 /\ 3 \in 1..5 /\ 4 \in 1..5 /\ 5 \in 1..5
      /\ 1 \in 1..7 /\ 2 \in 1..7 /\ 3 \in 1..7 /\ 4 \in 1..7 /\ 5 \in 1..7 /\ 6 \in 1..7 /\ 7 \in 1..7
      /\ 4 + 1 = 5 /\ 5 + 1 = 6 /\ 5 + 2 = 7
      /\ 7 + 1 = 8 /\ 7 + 2 = 9 /\ 7 + 3 = 10 /\ 7 + 4 = 11 /\ 7 + 5 = 12
  OBVIOUS
<1>9. a[1] = Linux[1] /\ a[2] = Linux[2] /\ a[3] = Linux[3] /\ a[4] = Linux[4] /\ a[5] = Pack[1]
  <2>1. (\A i \in 1..4 : a[i] = Linux[i]) /\ \A i \in 1..1 : a[4 + i] = Pack[i]
    BY <1>2, ListLengths
  <2> QED BY <2>1, <1>8, Zenon
<1>10. b[1] = a[1] /\ b[2] = a[2] /\ b[3] = a[3] /\ b[4] = a[4] /\ b[5] = a[5]
       /\ b[6] = Install[1] /\ b[7] = Install[2]
  <2>1. (\A i \in 1..5 : b[i] = a[i]) /\ \A i \in 1..2 : b[5 + i] = Install[i]
    BY <1>3, <1>4, ListLengths
  <2> QED BY <2>1, <1>8, Zenon
<1>11. c[1] = b[1] /\ c[2] = b[2] /\ c[3] = b[3] /\ c[4] = b[4] /\ c[5] = b[5] /\ c[6] = b[6] /\ c[7] = b[7]
  <2>1. \A i \in 1..7 : c[i] = b[i]
    BY <1>5, <1>6
  <2> QED BY <2>1, <1>8, Zenon
<1>12. c[8] = Opensbi[1] /\ c[9] = Opensbi[2] /\ c[10] = Opensbi[3] /\ c[11] = Opensbi[4] /\ c[12] = Opensbi[5]
  <2>1. \A i \in 1..5 : c[7 + i] = Opensbi[i]
    BY <1>5, <1>6, ListLengths
  <2> QED BY <2>1, <1>8, Zenon
<1>13. Build[1] = "clear" /\ Build[2] = "stamp" /\ Build[3] = "defconfig" /\ Build[4] = "kernel"
  <2>1. Linux[1] = "clear" /\ Linux[2] = "stamp" /\ Linux[3] = "defconfig" /\ Linux[4] = "kernel"
    BY Lists
  <2> QED BY <1>1, <1>9, <1>10, <1>11, <2>1
<1>14. Build[5] = "pack" /\ Build[6] = "embed" /\ Build[7] = "kernel"
  <2>1. Pack[1] = "pack" /\ Install[1] = "embed" /\ Install[2] = "kernel"
    BY Lists
  <2> QED BY <1>1, <1>9, <1>10, <1>11, <2>1
<1>15. Build[8] = "invalidate" /\ Build[9] = "pending" /\ Build[10] = "compile" /\ Build[11] = "link" /\ Build[12] = "commit"
  <2>1. /\ Opensbi[1] = "invalidate" /\ Opensbi[2] = "pending" /\ Opensbi[3] = "compile"
        /\ Opensbi[4] = "link" /\ Opensbi[5] = "commit"
    BY Lists
  <2> QED BY <1>1, <1>12, <2>1
<1> QED BY <1>1, <1>6, <1>7, <1>13, <1>14, <1>15, Zenon

\* Every goal has steps.
LEMMA StepsOfGoal ==
  ASSUME NEW g \in GoalNames
  PROVE  Steps(g) \in Seq(StepNames) /\ Len(Steps(g)) \in Nat \ {0}
<1>1. CASE g = "build"
  <2>1. Build \in Seq(StepNames) /\ Len(Build) = 12
    BY BuildSteps
  <2>2. Steps(g) = Build
    BY <1>1 DEF Steps
  <2>3. 12 \in Nat \ {0}
    OBVIOUS
  <2> QED BY <2>1, <2>2, <2>3, Zenon
<1>2. CASE g # "build"
  <2>1. Steps(g) \in {Linux, Pack, Install, Opensbi}
    BY <1>2, GoalLists DEF Steps, GoalNames
  <2>2. \A l \in {Linux, Pack, Install, Opensbi} : l \in Seq(StepNames) /\ Len(l) \in Nat \ {0}
    <3>1. Len(Linux) \in Nat \ {0} /\ Len(Pack) \in Nat \ {0} /\ Len(Install) \in Nat \ {0} /\ Len(Opensbi) \in Nat \ {0}
      BY ListLengths
    <3> QED BY <3>1, ListLengths, Zenon
  <2> QED BY <2>1, <2>2, Zenon
<1> QED BY <1>1, <1>2

\* The step at hand, by the goal and the number of steps left.
LEMMA StepAtHand ==
  ASSUME TodoInv, todo # <<>>
  PROVE  /\ Len(todo) \in Nat \ {0} /\ goal \in GoalNames
         /\ Head(todo) = Steps(goal)[Len(Steps(goal)) - Len(todo) + 1]
         /\ goal = "build" => Len(todo) \in 1..12 /\ Head(todo) = Build[13 - Len(todo)]
         /\ goal = "build_linux" => Len(todo) \in 1..4 /\ Head(todo) = Linux[5 - Len(todo)]
         /\ goal = "install_initramfs" => Len(todo) \in 1..2 /\ Head(todo) = Install[3 - Len(todo)]
         /\ goal = "make_initramfs_tiny_shell" => Len(todo) = 1 /\ Head(todo) = "pack"
         /\ goal = "build_opensbi_with_kernel" =>
              Len(todo) \in 1..5 /\ Head(todo) = Opensbi[6 - Len(todo)]
<1>1. Len(todo) \in Nat \ {0} /\ Head(todo) = todo[1] /\ 1 \in 1..Len(todo)
  BY DEF TodoInv
<1>2. /\ goal \in GoalNames /\ Len(todo) \in 1..Len(Steps(goal))
      /\ Head(todo) = Steps(goal)[Len(Steps(goal)) - Len(todo) + 1]
  BY <1>1 DEF TodoInv
<1>3. goal = "build" => Len(todo) \in 1..12 /\ Head(todo) = Build[13 - Len(todo)]
  <2> SUFFICES ASSUME goal = "build" PROVE Len(todo) \in 1..12 /\ Head(todo) = Build[13 - Len(todo)]
    OBVIOUS
  <2>1. Len(Steps(goal)) = 12 /\ Steps(goal) = Build
    BY BuildSteps DEF Steps
  <2>2. 12 - Len(todo) + 1 = 13 - Len(todo)
    BY <1>1
  <2> QED BY <1>2, <2>1, <2>2
<1>4. ASSUME goal # "build" PROVE Steps(goal) = Goals[goal]
  BY <1>4 DEF Steps
<1>5. goal = "build_linux" => Len(todo) \in 1..4 /\ Head(todo) = Linux[5 - Len(todo)]
  <2>1. 4 - Len(todo) + 1 = 5 - Len(todo)
    BY <1>1
  <2>2. goal = "build_linux" => Steps(goal) = Linux
    BY <1>4, GoalLists, Zenon
  <2>3. Len(Linux) = 4
    BY ListLengths
  <2> QED BY <1>2, <2>1, <2>2, <2>3
<1>6. goal = "install_initramfs" => Len(todo) \in 1..2 /\ Head(todo) = Install[3 - Len(todo)]
  <2>1. 2 - Len(todo) + 1 = 3 - Len(todo)
    BY <1>1
  <2>2. goal = "install_initramfs" => Steps(goal) = Install
    BY <1>4, GoalLists, Zenon
  <2>3. Len(Install) = 2
    BY ListLengths
  <2> QED BY <1>2, <2>1, <2>2, <2>3
<1>7. goal = "make_initramfs_tiny_shell" => Len(todo) = 1 /\ Head(todo) = "pack"
  BY <1>2, <1>4, GoalLists, Lists
<1>8. goal = "build_opensbi_with_kernel" =>
              Len(todo) \in 1..5 /\ Head(todo) = Opensbi[6 - Len(todo)]
  <2>1. 5 - Len(todo) + 1 = 6 - Len(todo)
    BY <1>1
  <2>2. goal = "build_opensbi_with_kernel" => Steps(goal) = Opensbi
    BY <1>4, GoalLists, Zenon
  <2>3. Len(Opensbi) = 5
    BY ListLengths
  <2> QED BY <1>2, <2>1, <2>2, <2>3
<1> QED BY <1>1, <1>2, <1>3, <1>5, <1>6, <1>7, <1>8

\* At most n steps of goal g are left.
Within(g, n) == todo # <<>> /\ goal = g /\ Len(todo) \in 1..n

\* Which step of which goal is at hand.
LEMMA Where ==
  ASSUME TodoInv, todo # <<>>
  PROVE  /\ Len(todo) \in Nat \ {0}
         /\ Head(todo) = "clear" => (goal = "build" /\ Len(todo) = 12) \/ (goal = "build_linux" /\ Len(todo) = 4)
         /\ Head(todo) = "stamp" => (goal = "build" /\ Len(todo) = 11) \/ (goal = "build_linux" /\ Len(todo) = 3)
         /\ Head(todo) = "defconfig" => (goal = "build" /\ Len(todo) = 10) \/ (goal = "build_linux" /\ Len(todo) = 2)
         /\ Head(todo) = "kernel" => \/ (goal = "build" /\ Len(todo) \in {6, 9}) \/ (goal = "build_linux" /\ Len(todo) = 1)
                                    \/ (goal = "install_initramfs" /\ Len(todo) = 1)
         /\ Head(todo) = "pack" => (goal = "build" /\ Len(todo) = 8) \/ goal = "make_initramfs_tiny_shell"
         /\ Head(todo) = "embed" => (goal = "build" /\ Len(todo) = 7) \/ (goal = "install_initramfs" /\ Len(todo) = 2)
         /\ Head(todo) = "invalidate" => (goal \in {"build", "build_opensbi_with_kernel"} /\ Len(todo) = 5)
         /\ Head(todo) = "pending" => (goal \in {"build", "build_opensbi_with_kernel"} /\ Len(todo) = 4)
         /\ Head(todo) = "compile" => (goal \in {"build", "build_opensbi_with_kernel"} /\ Len(todo) = 3)
         /\ Head(todo) = "link" => (goal \in {"build", "build_opensbi_with_kernel"} /\ Len(todo) = 2)
         /\ Head(todo) = "commit" => (goal \in {"build", "build_opensbi_with_kernel"} /\ Len(todo) = 1)
<1> DEFINE n == Len(todo)
           h == Head(todo)
<1>1. n \in Nat \ {0} /\ goal \in GoalNames
  BY StepAtHand
<1>2. ASSUME goal = "build"
      PROVE  \/ (n = 12 /\ h = "clear") \/ (n = 11 /\ h = "stamp") \/ (n = 10 /\ h = "defconfig") \/ (n = 9 /\ h = "kernel")
             \/ (n = 8 /\ h = "pack") \/ (n = 7 /\ h = "embed") \/ (n = 6 /\ h = "kernel") \/ (n = 5 /\ h = "invalidate")
             \/ (n = 4 /\ h = "pending") \/ (n = 3 /\ h = "compile") \/ (n = 2 /\ h = "link") \/ (n = 1 /\ h = "commit")
  <2>1. n \in 1..12 /\ h = Build[13 - n]
    BY <1>2, StepAtHand
  <2> HIDE DEF n, h
  <2>2. \/ (n = 12 /\ 13 - n = 1) \/ (n = 11 /\ 13 - n = 2) \/ (n = 10 /\ 13 - n = 3) \/ (n = 9 /\ 13 - n = 4)
        \/ (n = 8 /\ 13 - n = 5) \/ (n = 7 /\ 13 - n = 6) \/ (n = 6 /\ 13 - n = 7) \/ (n = 5 /\ 13 - n = 8)
        \/ (n = 4 /\ 13 - n = 9) \/ (n = 3 /\ 13 - n = 10) \/ (n = 2 /\ 13 - n = 11) \/ (n = 1 /\ 13 - n = 12)
    BY <2>1
  <2> QED BY <2>1, <2>2, BuildSteps
<1>3. ASSUME goal = "build_linux"
      PROVE  \/ (n = 4 /\ h = "clear") \/ (n = 3 /\ h = "stamp") \/ (n = 2 /\ h = "defconfig") \/ (n = 1 /\ h = "kernel")
  <2>1. n \in 1..4 /\ h = Linux[5 - n]
    BY <1>3, StepAtHand
  <2> HIDE DEF n, h
  <2> QED BY <2>1, Lists
<1>4. ASSUME goal = "install_initramfs" PROVE (n = 2 /\ h = "embed") \/ (n = 1 /\ h = "kernel")
  <2>1. n \in 1..2 /\ h = Install[3 - n]
    BY <1>4, StepAtHand
  <2> HIDE DEF n, h
  <2> QED BY <2>1, Lists
<1>5. ASSUME goal = "make_initramfs_tiny_shell" PROVE h = "pack"
  BY <1>5, StepAtHand
<1>6. ASSUME goal = "build_opensbi_with_kernel"
      PROVE  \/ (n = 5 /\ h = "invalidate") \/ (n = 4 /\ h = "pending") \/ (n = 3 /\ h = "compile")
             \/ (n = 2 /\ h = "link") \/ (n = 1 /\ h = "commit")
  <2>1. n \in 1..5 /\ h = Opensbi[6 - n]
    BY <1>6, StepAtHand
  <2> HIDE DEF n, h
  <2> QED BY <2>1, Lists
<1>7. goal \in {"build", "build_linux", "make_initramfs_tiny_shell", "install_initramfs", "build_opensbi_with_kernel"}
  BY <1>1, GoalLists DEF GoalNames
<1> HIDE DEF n, h
<1>8. n = Len(todo) /\ h = Head(todo)
  BY DEF n, h
<1> QED BY <1>1, <1>2, <1>3, <1>4, <1>5, <1>6, <1>7, <1>8

\* A step leaves the rest of the steps of the same goal.
LEMMA Advance ==
  ASSUME TodoInv, NEW s, Step(s)
  PROVE  /\ TodoInv' /\ todo # <<>> /\ goal' = goal /\ Head(todo) = s
         /\ todo' # <<>> => Len(todo') = Len(todo) - 1
<1>1. todo \in Seq(StepNames) /\ todo # <<>> /\ todo' = Tail(todo) /\ goal' = goal /\ Head(todo) = s
  BY DEF TodoInv, Step
<1>2. todo' \in Seq(StepNames) /\ Len(todo') = Len(todo) - 1 /\ \A j \in 1..Len(todo') : todo'[j] = todo[j + 1]
  BY <1>1
<1>3. ASSUME todo' # <<>>
      PROVE  /\ goal' \in GoalNames /\ Len(todo') \in 1..Len(Steps(goal'))
             /\ \A j \in 1..Len(todo') : todo'[j] = Steps(goal')[Len(Steps(goal')) - Len(todo') + j]
  <2>1. /\ goal \in GoalNames /\ Len(todo) \in 1..Len(Steps(goal))
        /\ \A j \in 1..Len(todo) : todo[j] = Steps(goal)[Len(Steps(goal)) - Len(todo) + j]
    BY <1>1 DEF TodoInv
  <2>2. Len(Steps(goal)) \in Nat /\ Len(todo) \in Nat
    BY <1>1, <2>1, StepsOfGoal
  <2>3. Len(todo') \in 1..Len(Steps(goal))
    BY <1>2, <1>3, <2>1, <2>2
  <2>4. \A j \in 1..Len(todo') :
           /\ j + 1 \in 1..Len(todo)
           /\ Len(Steps(goal)) - Len(todo) + (j + 1) = Len(Steps(goal)) - Len(todo') + j
    BY <1>2, <2>2
  <2>5. \A j \in 1..Len(todo') : todo'[j] = Steps(goal)[Len(Steps(goal)) - Len(todo') + j]
    BY <1>2, <2>1, <2>4
  <2> QED BY <1>1, <2>1, <2>3, <2>5
<1> QED BY <1>1, <1>2, <1>3 DEF TodoInv

\* make is asked for `build` or for a goal of Alone.
LEMMA StartCases ==
  ASSUME Start("build", Build) \/ \E g \in Alone : Start(g, Goals[g])
  PROVE  \E g \in GoalNames : Start(g, Steps(g)) /\ g \in Alone \cup {"build"}
<1>1. CASE Start("build", Build)
  BY <1>1 DEF GoalNames, Steps
<1>2. ASSUME NEW g \in Alone, Start(g, Goals[g])
      PROVE  g \in GoalNames /\ Start(g, Steps(g))
  <2>1. g \in DOMAIN Goals
    BY SettingsAssumption
  <2>2. g # "build"
    BY <2>1, GoalLists
  <2> QED BY <1>2, <2>1, <2>2 DEF GoalNames, Steps
<1> QED BY <1>1, <1>2

\* and has all the steps of it to take.
LEMMA StartTodo ==
  ASSUME NEW g \in GoalNames, Start(g, Steps(g))
  PROVE  TodoInv' /\ goal' = g /\ todo' = Steps(g)
<1>1. goal' = g /\ todo' = Steps(g)
  BY DEF Start
<1>2. Steps(g) \in Seq(StepNames) /\ Len(Steps(g)) \in Nat \ {0}
  BY StepsOfGoal
<1>3. \A j \in 1..Len(Steps(g)) : Len(Steps(g)) - Len(Steps(g)) + j = j
  BY <1>2
<1> QED BY <1>1, <1>2, <1>3 DEF TodoInv

\* What is said of a goal under way is not said of an idle make,
LEMMA NoTodo ==
  ASSUME todo' = <<>> PROVE TodoInv' /\ \A g, n : ~Within(g, n)'
BY DEF TodoInv, Within

\* and stays as it is while the goal does.
LEMMA SameTodo ==
  ASSUME TodoInv, UNCHANGED <<goal, todo>>
  PROVE  TodoInv' /\ \A g, n : Within(g, n)' = Within(g, n)
<1>1. TodoInv'
  BY DEF TodoInv
<1> QED BY <1>1 DEF Within

\* A goal that starts has all its steps before it.
LEMMA StartWithin ==
  ASSUME NEW g \in GoalNames, Start(g, Steps(g)), NEW f, NEW n \in Nat, Within(f, n)'
  PROVE  /\ f = g
         /\ g = "build" => n >= 12
         /\ g = "build_linux" => n >= 4
         /\ g = "install_initramfs" => n >= 2
         /\ g = "build_opensbi_with_kernel" => n >= 5
<1>1. todo' = Steps(g) /\ goal' = g
  BY DEF Start
<1>2. f = g /\ Len(Steps(g)) \in 1..n
  BY <1>1 DEF Within
<1>3. /\ Len(Steps("build")) = 12
      /\ Len(Steps("build_linux")) = 4
      /\ Len(Steps("install_initramfs")) = 2
      /\ Len(Steps("build_opensbi_with_kernel")) = 5
  <2>1. /\ Steps("build") = Build /\ Steps("build_linux") = Linux /\ Steps("install_initramfs") = Install
        /\ Steps("build_opensbi_with_kernel") = Opensbi
    BY GoalLists DEF Steps
  <2> QED BY <2>1, BuildSteps, ListLengths
<1>4. ASSUME NEW k \in Nat, Len(Steps(g)) = k PROVE n >= k
  BY <1>2, <1>4
<1> QED BY <1>2, <1>3, <1>4

\* Where make was before the step that leaves at most n.
LEMMA StepWithin ==
  ASSUME TodoInv, NEW s, Step(s), NEW g, NEW n \in Nat, Within(g, n)'
  PROVE  goal = g /\ Len(todo) \in 2..n + 1
<1>1. todo # <<>> /\ goal' = goal /\ Len(todo') = Len(todo) - 1 /\ Len(todo) \in Nat
  BY Advance, Where DEF Within
<1> QED BY <1>1 DEF Within

\* The goals that compile the kernel have its directory, and those that link the
\* firmware the Image and the objects.
Located ==
  /\ Within("build", 10) \/ Within("build_linux", 2) \/ Within("install_initramfs", 1) => tree # None
  /\ Within("build", 4) \/ Within("build_opensbi_with_kernel", 4) => image # None
  /\ Within("build", 2) \/ Within("build_opensbi_with_kernel", 2) => complete = Trees

\* The inductive invariant behind TypeOK.
TypeInv == TodoInv /\ TypeOK /\ Located

\* What a step must leave for the steps after it to be located.
LEMMA LocatedNext ==
  ASSUME TodoInv, NEW s, Step(s),
         \/ goal = "build" /\ Len(todo) \in 2..11
         \/ goal = "build_linux" /\ Len(todo) \in 2..3
         \/ goal = "install_initramfs" /\ Len(todo) = 2
         => tree' # None,
         goal \in {"build", "build_opensbi_with_kernel"} /\ Len(todo) \in 2..5 => image' # None,
         goal \in {"build", "build_opensbi_with_kernel"} /\ Len(todo) \in 2..3 => complete' = Trees
  PROVE  Located'
<1>1. ASSUME todo' # <<>>
      PROVE  goal' = goal /\ Len(todo') = Len(todo) - 1 /\ Len(todo) \in Nat
  BY <1>1, Advance, Where
<1>2. Within("build", 10)' \/ Within("build_linux", 2)' \/ Within("install_initramfs", 1)' => tree' # None
  <2>1. ASSUME Within("build", 10)' PROVE goal = "build" /\ Len(todo) \in 2..11
    <3>1. todo' # <<>> /\ goal' = "build" /\ Len(todo') \in 1..10
      BY <2>1 DEF Within
    <3>2. goal = "build" /\ Len(todo') = Len(todo) - 1 /\ Len(todo) \in Nat
      BY <1>1, <3>1
    <3>3. \A l, m \in Nat : m = l - 1 /\ m \in 1..10 => l \in 2..11
      OBVIOUS
    <3>4. Len(todo') \in Nat
      BY <3>1
    <3> QED BY <3>1, <3>2, <3>3, <3>4
  <2>2. ASSUME Within("build_linux", 2)' PROVE goal = "build_linux" /\ Len(todo) \in 2..3
    <3>1. todo' # <<>> /\ goal' = "build_linux" /\ Len(todo') \in 1..2
      BY <2>2 DEF Within
    <3>2. goal = "build_linux" /\ Len(todo') = Len(todo) - 1 /\ Len(todo) \in Nat
      BY <1>1, <3>1
    <3> QED BY <3>1, <3>2
  <2>3. ASSUME Within("install_initramfs", 1)' PROVE goal = "install_initramfs" /\ Len(todo) = 2
    <3>1. todo' # <<>> /\ goal' = "install_initramfs" /\ Len(todo') \in 1..1
      BY <2>3 DEF Within
    <3>2. goal = "install_initramfs" /\ Len(todo') = Len(todo) - 1 /\ Len(todo) \in Nat
      BY <1>1, <3>1
    <3> QED BY <3>1, <3>2
  <2> QED BY <2>1, <2>2, <2>3
<1>3. Within("build", 4)' \/ Within("build_opensbi_with_kernel", 4)' => image' # None
  <2>1. ASSUME Within("build", 4)' PROVE goal = "build" /\ Len(todo) \in 2..5
    <3>1. todo' # <<>> /\ goal' = "build" /\ Len(todo') \in 1..4
      BY <2>1 DEF Within
    <3>2. goal = "build" /\ Len(todo') = Len(todo) - 1 /\ Len(todo) \in Nat
      BY <1>1, <3>1
    <3> QED BY <3>1, <3>2
  <2>2. ASSUME Within("build_opensbi_with_kernel", 4)' PROVE goal = "build_opensbi_with_kernel" /\ Len(todo) \in 2..5
    <3>1. todo' # <<>> /\ goal' = "build_opensbi_with_kernel" /\ Len(todo') \in 1..4
      BY <2>2 DEF Within
    <3>2. goal = "build_opensbi_with_kernel" /\ Len(todo') = Len(todo) - 1 /\ Len(todo) \in Nat
      BY <1>1, <3>1
    <3> QED BY <3>1, <3>2
  <2> QED BY <2>1, <2>2
<1>4. Within("build", 2)' \/ Within("build_opensbi_with_kernel", 2)' => complete' = Trees
  <2>1. ASSUME Within("build", 2)' PROVE goal = "build" /\ Len(todo) \in 2..3
    <3>1. todo' # <<>> /\ goal' = "build" /\ Len(todo') \in 1..2
      BY <2>1 DEF Within
    <3>2. goal = "build" /\ Len(todo') = Len(todo) - 1 /\ Len(todo) \in Nat
      BY <1>1, <3>1
    <3> QED BY <3>1, <3>2
  <2>2. ASSUME Within("build_opensbi_with_kernel", 2)' PROVE goal = "build_opensbi_with_kernel" /\ Len(todo) \in 2..3
    <3>1. todo' # <<>> /\ goal' = "build_opensbi_with_kernel" /\ Len(todo') \in 1..2
      BY <2>2 DEF Within
    <3>2. goal = "build_opensbi_with_kernel" /\ Len(todo') = Len(todo) - 1 /\ Len(todo) \in Nat
      BY <1>1, <3>1
    <3> QED BY <3>1, <3>2
  <2> QED BY <2>1, <2>2
<1> QED BY <1>2, <1>3, <1>4 DEF Located

\* The kernel version that is set is a version.
LEMMA SettingType ==
  ASSUME NEW s \in Settings PROVE s.version \in Versions /\ s.version # None /\ s.isa \in Isas
BY NoneAssumption DEF Versions, Isas

\* Every step of make, whole or half, keeps the outputs well formed.
LEMMA TypeStep == TypeInv /\ [Next]_vars => TypeInv'
<1> SUFFICES ASSUME TypeInv, [Next]_vars PROVE TypeInv'
  OBVIOUS
<1> USE DEF kernel, opensbi
<1>0. /\ TodoInv /\ TypeOK /\ Located /\ setting.version \in Versions /\ setting.version # None
      /\ setting.isa \in Isas /\ \A T \in SUBSET Versions : T # None
  BY SettingType, NoneAssumption DEF TypeInv, TypeOK
<1>1. CASE ClearTree
  <2>1. TodoInv'
    BY <1>0, <1>1, Advance DEF ClearTree
  <2>2. TypeOK'
    <3>1. UNCHANGED <<setting, payload, cpio, objects, complete, firmware, stamp, pending>>
      BY <1>1 DEF ClearTree, Step
    <3>2. \/ tree' = None /\ version' = None /\ embedded' = None /\ image' = None
          \/ UNCHANGED <<tree, version, embedded, image>>
      BY <1>1 DEF ClearTree
    <3>3. /\ (tree' = None \/ tree' \subseteq Versions) /\ version' \in Versions \cup {None}
          /\ image' \in Images \cup {None}
      BY <1>0, <3>2 DEF TypeOK
    <3>4. embedded' \in {TRUE, FALSE, None}
      BY <1>0, <3>2, Zenon DEF TypeOK
    <3>5. tree' = None => version' = None /\ image' = None /\ embedded' = None
      BY <1>0, <3>2, Zenon DEF TypeOK
    <3> QED BY <1>0, <3>1, <3>3, <3>4, <3>5 DEF TypeOK
  <2>3. Located'
    <3>1. goal' = goal /\ ((goal = "build" /\ Len(todo) = 12) \/ (goal = "build_linux" /\ Len(todo) = 4))
      BY <1>0, <1>1, Advance, Where DEF ClearTree
    <3> QED BY <1>0, <1>1, <3>1, LocatedNext DEF ClearTree
  <2> QED BY <2>1, <2>2, <2>3 DEF TypeInv
<1>2. CASE StampTree
  <2>1. TodoInv'
    BY <1>0, <1>2, Advance DEF StampTree
  <2>2. TypeOK'
    BY <1>0, <1>2 DEF StampTree, Step, TypeOK
  <2>3. Located'
    <3>1. goal' = goal /\ ((goal = "build" /\ Len(todo) = 11) \/ (goal = "build_linux" /\ Len(todo) = 3))
      BY <1>0, <1>2, Advance, Where DEF StampTree
    <3>2. tree' # None
      BY <1>0, <1>2 DEF StampTree
    <3> QED BY <1>0, <1>2, <3>1, <3>2, LocatedNext DEF StampTree
  <2> QED BY <2>1, <2>2, <2>3 DEF TypeInv
<1>3. CASE Defconfig
  <2>0. goal' = goal /\ ((goal = "build" /\ Len(todo) = 10) \/ (goal = "build_linux" /\ Len(todo) = 2))
    BY <1>0, <1>3, Advance, Where DEF Defconfig
  <2>1. TodoInv'
    BY <1>0, <1>3, Advance DEF Defconfig
  <2>4. tree # None
    BY <1>0, <1>3, <2>0, Advance DEF Defconfig, Located, Within
  <2>2. TypeOK'
    BY <1>0, <1>3, <2>4 DEF Defconfig, Step, TypeOK
  <2>3. Located'
    BY <1>0, <1>3, <2>0, <2>4, LocatedNext DEF Defconfig
  <2> QED BY <2>1, <2>2, <2>3 DEF TypeInv
<1>4. CASE BuildImage
  <2>0. goal' = goal /\ (\/ (goal = "build" /\ Len(todo) \in {6, 9}) \/ (goal = "build_linux" /\ Len(todo) = 1)
                         \/ (goal = "install_initramfs" /\ Len(todo) = 1))
    BY <1>0, <1>4, Advance, Where DEF BuildImage
  <2>1. TodoInv'
    BY <1>0, <1>4, Advance DEF BuildImage
  <2>4. tree # None
    BY <1>0, <1>4, <2>0, Advance DEF BuildImage, Located, Within
  <2>5. tree' \in SUBSET Versions /\ tree' # None
    <3>0. setting.version \in Versions
      BY <1>0
    <3>1. tree \in SUBSET Versions /\ tree' = tree \cup {setting.version}
      BY <1>0, <1>4, <2>4 DEF BuildImage, TypeOK
    <3>2. tree' \in SUBSET Versions
      BY <3>0, <3>1
    <3> QED BY <1>0, <3>2, Zenon
  <2>2. TypeOK'
    <3>1. (IF embedded = TRUE THEN cpio ELSE None) \in (0..MaxRev) \cup {None}
      BY <1>0 DEF TypeOK
    <3>2. image' \in Images
      BY <1>0, <1>4, <3>1 DEF BuildImage, Images
    <3>3. UNCHANGED <<setting, payload, version, embedded, cpio, objects, complete, firmware, stamp, pending>>
      BY <1>4 DEF BuildImage, Step
    <3> QED BY <1>0, <2>5, <3>2, <3>3 DEF TypeOK
  <2>3. Located'
    BY <1>0, <1>4, <2>0, <2>5, LocatedNext DEF BuildImage
  <2> QED BY <2>1, <2>2, <2>3 DEF TypeInv
<1>5. CASE PackInitramfs
  <2>0. goal' = goal /\ ((goal = "build" /\ Len(todo) = 8) \/ goal = "make_initramfs_tiny_shell")
    BY <1>0, <1>5, Advance, Where DEF PackInitramfs
  <2>1. TodoInv'
    BY <1>0, <1>5, Advance DEF PackInitramfs
  <2>2. TypeOK'
    <3>1. payload \in 0..MaxRev /\ MaxRev \in Nat
      BY <1>0, SettingsAssumption DEF TypeOK
    <3> QED BY <1>0, <1>5, <3>1 DEF PackInitramfs, Step, TypeOK
  <2>4. tree' # None
    BY <1>0, <1>5 DEF PackInitramfs
  <2>3. Located'
    BY <1>0, <1>5, <2>0, <2>4, LocatedNext DEF PackInitramfs
  <2> QED BY <2>1, <2>2, <2>3 DEF TypeInv
<1>6. CASE Embed
  <2>0. goal' = goal /\ ((goal = "build" /\ Len(todo) = 7) \/ (goal = "install_initramfs" /\ Len(todo) = 2))
    BY <1>0, <1>6, Advance, Where DEF Embed
  <2>1. TodoInv'
    BY <1>0, <1>6, Advance DEF Embed
  <2>2. TypeOK'
    BY <1>0, <1>6 DEF Embed, Step, TypeOK
  <2>4. tree' # None
    BY <1>0, <1>6 DEF Embed, TypeOK
  <2>3. Located'
    BY <1>0, <1>6, <2>0, <2>4, LocatedNext DEF Embed
  <2> QED BY <2>1, <2>2, <2>3 DEF TypeInv
<1>7. CASE Invalidate
  <2>0. goal' = goal /\ goal \in {"build", "build_opensbi_with_kernel"} /\ Len(todo) = 5
    BY <1>0, <1>7, Advance, Where DEF Invalidate
  <2>1. TodoInv'
    BY <1>0, <1>7, Advance DEF Invalidate
  <2>2. TypeOK'
    BY <1>0, <1>7 DEF Invalidate, Step, TypeOK
  <2>7. goal = "build" => tree # None
    BY <1>0, <1>7, <2>0, Advance DEF Invalidate, Located, Within
  <2>3. Located'
    BY <1>0, <1>7, <2>0, <2>7, LocatedNext DEF Invalidate, Placed
  <2> QED BY <2>1, <2>2, <2>3 DEF TypeInv
<1>8. CASE WritePending
  <2>0. goal' = goal /\ goal \in {"build", "build_opensbi_with_kernel"} /\ Len(todo) = 4
    BY <1>0, <1>8, Advance, Where DEF WritePending
  <2>1. TodoInv'
    BY <1>0, <1>8, Advance DEF WritePending
  <2>4. image # None
    BY <1>0, <1>8, <2>0, Advance DEF WritePending, Located, Within
  <2>2. TypeOK'
    BY <1>0, <1>8, <2>4 DEF WritePending, Step, TypeOK, Stamps, Inputs
  <2>7. goal = "build" => tree # None
    BY <1>0, <1>8, <2>0, Advance DEF WritePending, Located, Within
  <2>3. Located'
    BY <1>0, <1>8, <2>0, <2>4, <2>7, LocatedNext DEF WritePending
  <2> QED BY <2>1, <2>2, <2>3 DEF TypeInv
<1>9. CASE Compile
  <2>0. goal' = goal /\ goal \in {"build", "build_opensbi_with_kernel"} /\ Len(todo) = 3
    BY <1>0, <1>9, Advance, Where DEF Compile
  <2>1. TodoInv'
    BY <1>0, <1>9, Advance DEF Compile
  <2>2. TypeOK'
    BY <1>0, <1>9 DEF Compile, Compiled, Step, TypeOK
  <2>7. goal = "build" => tree # None
    BY <1>0, <1>9, <2>0, Advance DEF Compile, Located, Within
  <2>8. image # None
    BY <1>0, <1>9, <2>0, Advance DEF Compile, Located, Within
  <2>3. Located'
    BY <1>0, <1>9, <2>0, <2>8, <2>7, LocatedNext DEF Compile, Compiled
  <2> QED BY <2>1, <2>2, <2>3 DEF TypeInv
<1>10. CASE LinkFirmware
  <2>0. goal' = goal /\ goal \in {"build", "build_opensbi_with_kernel"} /\ Len(todo) = 2
    BY <1>0, <1>10, Advance, Where DEF LinkFirmware
  <2>1. TodoInv'
    BY <1>0, <1>10, Advance DEF LinkFirmware
  <2>4. complete = Trees
    BY <1>0, <1>10, <2>0, Advance DEF LinkFirmware, Located, Within
  <2>5. UNION {objects[t] : t \in Trees} # {}
    BY <1>0, <2>4 DEF TypeOK, Trees
  <2>6. firmware' # None => firmware'.isas # {}
    BY <1>0, <1>10, <2>5 DEF LinkFirmware, TypeOK
  <2>2. TypeOK'
    BY <1>0, <1>10, <2>4, <2>6 DEF LinkFirmware, Step, TypeOK
  <2>7. goal = "build" => tree # None
    BY <1>0, <1>10, <2>0, Advance DEF LinkFirmware, Located, Within
  <2>8. image # None
    BY <1>0, <1>10, <2>0, Advance DEF LinkFirmware, Located, Within
  <2>3. Located'
    BY <1>0, <1>10, <2>0, <2>4, <2>8, <2>7, LocatedNext DEF LinkFirmware
  <2> QED BY <2>1, <2>2, <2>3 DEF TypeInv
<1>11. CASE Commit
  <2>0. goal' = goal /\ goal \in {"build", "build_opensbi_with_kernel"} /\ Len(todo) = 1
    BY <1>0, <1>11, Advance, Where DEF Commit
  <2>1. TodoInv'
    BY <1>0, <1>11, Advance DEF Commit
  <2>2. TypeOK'
    BY <1>0, <1>11 DEF Commit, Step, TypeOK, Stamps
  <2>7. goal = "build" => tree # None
    BY <1>0, <1>11, <2>0, Advance DEF Commit, Located, Within
  <2>3. Located'
    BY <1>0, <1>11, <2>0, <2>7, LocatedNext DEF Commit
  <2> QED BY <2>1, <2>2, <2>3 DEF TypeInv
<1>12. CASE Fail
  <2>1. todo' = <<>> /\ Half /\ UNCHANGED <<setting, payload>>
    BY <1>12 DEF Fail
  <2>2. TypeOK'
    <3>1. CASE UNCHANGED <<kernel, opensbi>>
      BY <1>0, <2>1, <3>1 DEF TypeOK
    <3>2. CASE HalfCleared
      BY <1>0, <2>1, <3>2 DEF HalfCleared, TypeOK
    <3>3. CASE HalfStamped
      BY <1>0, <2>1, <3>3 DEF HalfStamped, TypeOK
    <3>4. CASE HalfCompiledKernel
      <4>1. Head(todo) = "kernel" /\ todo # <<>>
        BY <1>12, <3>4 DEF Fail, HalfCompiledKernel
      <4>2. tree # None
        BY <1>0, <4>1, Where DEF Located, Within
      <4>0. setting.version \in Versions
        BY <1>0
      <4>3. tree \in SUBSET Versions /\ tree' = tree \cup {setting.version}
        BY <1>0, <3>4, <4>2 DEF HalfCompiledKernel, TypeOK
      <4>4. tree' \in SUBSET Versions
        BY <4>0, <4>3
      <4>5. tree' # None
        BY <1>0, <4>4, Zenon
      <4> QED BY <1>0, <2>1, <3>4, <4>4, <4>5 DEF HalfCompiledKernel, TypeOK
    <3>5. CASE HalfPacked
      <4>1. 0 \in 0..MaxRev
        BY SettingsAssumption
      <4> QED BY <1>0, <2>1, <3>5, <4>1 DEF HalfPacked, TypeOK, Torn
    <3>6. CASE HalfInvalidated
      BY <1>0, <2>1, <3>6 DEF HalfInvalidated, TypeOK
    <3>7. CASE HalfCompiled
      <4>1. PICK done \in SUBSET Trees : complete \subseteq done /\ Compiled(done)
        BY <3>7 DEF HalfCompiled
      <4>2. objects' \in [Trees -> SUBSET Isas] /\ \A t \in Trees : objects'[t] # {}
        BY <1>0, <4>1 DEF Compiled, TypeOK
      <4>3. complete' \subseteq {t \in Trees : objects'[t] # {}}
        BY <4>1, <4>2 DEF Compiled
      <4> QED BY <1>0, <2>1, <3>7, <4>2, <4>3 DEF HalfCompiled, TypeOK
    <3> QED BY <2>1, <3>1, <3>2, <3>3, <3>4, <3>5, <3>6, <3>7 DEF Half
  <2> QED BY <2>1, <2>2, NoTodo DEF TypeInv, Located
<1>13. CASE Refuse
  BY <1>0, <1>13, NoTodo DEF Refuse, TypeInv, TypeOK, Located
<1>14. ASSUME NEW g \in GoalNames, Start(g, Steps(g)) PROVE TypeInv'
  <2>1. TodoInv' /\ TypeOK'
    BY <1>0, <1>14, StartTodo DEF Start, TypeOK
  <2>2. Located'
    BY <1>14, StartWithin DEF Located
  <2> QED BY <2>1, <2>2 DEF TypeInv
<1>15. ASSUME UNCHANGED <<goal, todo, kernel, opensbi>>, setting' \in Settings, payload' \in 1..MaxRev PROVE TypeInv'
  BY <1>0, <1>15, SameTodo DEF TypeInv, TypeOK, Located
<1>16. CASE Edit
  <2>1. payload' \in 1..MaxRev
    BY <1>0, <1>16, SettingsAssumption DEF Edit, TypeOK
  <2> QED BY <1>0, <1>15, <1>16, <2>1 DEF Edit, TypeOK
<1>17. ASSUME NEW s \in Settings, Configure(s) PROVE TypeInv'
  BY <1>0, <1>15, <1>17 DEF Configure, TypeOK
<1>18. CASE UNCHANGED vars
  BY <1>0, <1>15, <1>18 DEF vars, TypeOK
<1> QED BY <1>1, <1>2, <1>3, <1>4, <1>5, <1>6, <1>7, <1>8, <1>9, <1>10, <1>11, <1>12, <1>13, <1>14, <1>16,
           <1>17, <1>18, StartCases DEF Next, Make

\* An empty output directory is well formed.
LEMMA InitOK == Init => TypeInv
<1> SUFFICES ASSUME Init PROVE TypeInv
  OBVIOUS
<1>1. TodoInv /\ Located
  BY DEF Init, TodoInv, Located, Within
<1>2. payload \in 1..MaxRev /\ setting \in Settings
  BY SettingsAssumption DEF Init
<1>3. objects \in [Trees -> SUBSET Isas]
  BY DEF Init
<1> QED BY <1>1, <1>2, <1>3 DEF Init, TypeInv, TypeOK, Stamps

\* The outputs of the Makefile's goals and of prepare-opensbi.py are well formed,
\* for any presets, goals run alone and kills: a tree of OpenSBI that is complete
\* has objects, and what is stamped is there.
THEOREM OutputsTyped == Spec => []TypeOK
<1>1. TypeInv => TypeOK
  BY DEF TypeInv
<1> QED BY <1>1, InitOK, TypeStep, PTL DEF Spec

-----------------------------------------------------------------------------
\* A stamp names the version of all the objects, and from the time the directory
\* has been cleared it is, or will be made, the stamp of the version that is set.
Stamped ==
  /\ todo # <<>> => goal # "install_initramfs"
  /\ tree # None /\ version # None => tree \subseteq {version}
  /\ Within("build", 11) \/ Within("build_linux", 3) => tree = None \/ version = setting.version
  /\ Within("build", 10) \/ Within("build_linux", 2) => version = setting.version

\* What a step must leave for the directory to stay stamped.
LEMMA StampedNext ==
  ASSUME TodoInv, Stamped, NEW s, Step(s),
         tree' # None /\ version' # None => tree' \subseteq {version'},
         \/ goal = "build" /\ Len(todo) \in 2..12
         \/ goal = "build_linux" /\ Len(todo) \in 2..4
         => tree' = None \/ version' = setting.version,
         \/ goal = "build" /\ Len(todo) \in 2..11
         \/ goal = "build_linux" /\ Len(todo) \in 2..3
         => version' = setting.version
  PROVE  Stamped'
<1>1. goal' = goal /\ todo # <<>> /\ setting' = setting
  BY Advance DEF Step
<1>2. Within("build", 11)' => goal = "build" /\ Len(todo) \in 2..12
  BY StepWithin, 11 + 1 = 12
<1>3. Within("build", 10)' => goal = "build" /\ Len(todo) \in 2..11
  BY StepWithin, 10 + 1 = 11
<1>4. Within("build_linux", 3)' => goal = "build_linux" /\ Len(todo) \in 2..4
  BY StepWithin, 3 + 1 = 4
<1>5. Within("build_linux", 2)' => goal = "build_linux" /\ Len(todo) \in 2..3
  BY StepWithin, 2 + 1 = 3
<1>6. todo' # <<>> => goal' # "install_initramfs"
  BY <1>1 DEF Stamped
<1>7. Within("build", 11)' \/ Within("build_linux", 3)' => tree' = None \/ version' = setting'.version
  BY <1>1, <1>2, <1>4
<1>8. Within("build", 10)' \/ Within("build_linux", 2)' => version' = setting'.version
  BY <1>1, <1>3, <1>5
<1> QED BY <1>6, <1>7, <1>8 DEF Stamped

\* Every step leaves it so: the goals that compile a kernel clear the
\* directory first, and a kill before they stamp it leaves it empty or unstamped.
LEMMA StampedStep ==
  ASSUME TypeInv, Stamped, [Next]_vars, "install_initramfs" \notin Alone
  PROVE  Stamped'
<1> USE DEF kernel, opensbi
<1>0. /\ TodoInv /\ TypeOK /\ Located /\ setting.version # None
      /\ todo # <<>> => goal # "install_initramfs"
      /\ tree # None /\ version # None => tree \subseteq {version}
  BY SettingType DEF TypeInv, TypeOK, Stamped
<1>1. CASE ClearTree
  <2>1. (goal = "build" /\ Len(todo) = 12) \/ (goal = "build_linux" /\ Len(todo) = 4)
    BY <1>0, <1>1, Advance, Where DEF ClearTree
  <2>2. tree' # None /\ version' # None => tree' \subseteq {version'}
    BY <1>0, <1>1 DEF ClearTree
  <2>3. tree' = None \/ version' = setting.version
    BY <1>0, <1>1 DEF ClearTree
  <2>4. /\ ~(goal = "build" /\ Len(todo) \in 2..11)
        /\ ~(goal = "build_linux" /\ Len(todo) \in 2..3)
    BY <2>1
  <2>5. TodoInv /\ Stamped /\ Step("clear")
    BY <1>0, <1>1 DEF ClearTree
  <2> QED BY <2>2, <2>3, <2>4, <2>5, StampedNext
<1>2. CASE StampTree
  <2>1. (goal = "build" /\ Len(todo) = 11) \/ (goal = "build_linux" /\ Len(todo) = 3)
    BY <1>0, <1>2, Advance, Where DEF StampTree
  <2>2. tree = None \/ version = setting.version
    BY <1>0, <1>2, <2>1, Advance DEF StampTree, Stamped, Within
  <2>3. tree' \subseteq {setting.version} /\ version' = setting.version
    BY <1>0, <1>2, <2>2 DEF StampTree
  <2>4. tree' # None /\ version' # None => tree' \subseteq {version'}
    BY <2>3
  <2> QED BY <1>0, <1>2, <2>3, <2>4, StampedNext DEF StampTree
<1>3. CASE Defconfig
  <2>1. (goal = "build" /\ Len(todo) = 10) \/ (goal = "build_linux" /\ Len(todo) = 2)
    BY <1>0, <1>3, Advance, Where DEF Defconfig
  <2>2. version = setting.version
    BY <1>0, <1>3, <2>1, Advance DEF Defconfig, Stamped, Within
  <2> QED BY <1>0, <1>3, <2>2, StampedNext DEF Defconfig
<1>4. CASE BuildImage
  <2>1. \/ (goal = "build" /\ Len(todo) \in {6, 9}) \/ (goal = "build_linux" /\ Len(todo) = 1)
        \/ (goal = "install_initramfs" /\ Len(todo) = 1)
    BY <1>0, <1>4, Advance, Where DEF BuildImage
  <2>2. tree # None /\ version = setting.version
    BY <1>0, <1>4, <2>1, Advance DEF BuildImage, Stamped, Located, Within
  <2>3. tree' \subseteq {setting.version} /\ version' = setting.version
    BY <1>0, <1>4, <2>2 DEF BuildImage
  <2>4. tree' # None /\ version' # None => tree' \subseteq {version'}
    BY <2>3
  <2> QED BY <1>0, <1>4, <2>3, <2>4, StampedNext DEF BuildImage
<1>5. CASE PackInitramfs
  <2>1. (goal = "build" /\ Len(todo) = 8) \/ goal = "make_initramfs_tiny_shell"
    BY <1>0, <1>5, Advance, Where DEF PackInitramfs
  <2>2. goal = "build" => version = setting.version
    BY <1>0, <1>5, <2>1, Advance DEF PackInitramfs, Stamped, Within
  <2>3. tree' # None /\ version' # None => tree' \subseteq {version'}
    BY <1>0, <1>5 DEF PackInitramfs
  <2>4. (goal = "build" /\ Len(todo) = 8 /\ version' = setting.version) \/ goal = "make_initramfs_tiny_shell"
    BY <1>5, <2>1, <2>2 DEF PackInitramfs
  <2> QED BY <1>0, <1>5, <2>3, <2>4, StampedNext DEF PackInitramfs
<1>6. ASSUME NEW s, Step(s), UNCHANGED <<tree, version>>, Len(todo) \in 1..7, goal # "build_linux"
      PROVE  Stamped'
  <2>1. goal = "build" => version = setting.version
    BY <1>0, <1>6, Advance DEF Stamped, Within
  <2> QED BY <1>0, <1>6, <2>1, StampedNext
<1>7. CASE Embed
  <2>1. Len(todo) \in 1..7 /\ goal # "build_linux"
    BY <1>0, <1>7, Advance, Where DEF Embed
  <2> QED BY <1>6, <1>7, <2>1 DEF Embed
<1>8. CASE Invalidate
  <2>1. Len(todo) \in 1..7 /\ goal # "build_linux"
    BY <1>0, <1>8, Advance, Where DEF Invalidate
  <2> QED BY <1>6, <1>8, <2>1 DEF Invalidate
<1>9. CASE WritePending
  <2>1. Len(todo) \in 1..7 /\ goal # "build_linux"
    BY <1>0, <1>9, Advance, Where DEF WritePending
  <2> QED BY <1>6, <1>9, <2>1 DEF WritePending
<1>10. CASE Compile
  <2>1. Len(todo) \in 1..7 /\ goal # "build_linux"
    BY <1>0, <1>10, Advance, Where DEF Compile
  <2> QED BY <1>6, <1>10, <2>1 DEF Compile
<1>11. CASE LinkFirmware
  <2>1. Len(todo) \in 1..7 /\ goal # "build_linux"
    BY <1>0, <1>11, Advance, Where DEF LinkFirmware
  <2> QED BY <1>6, <1>11, <2>1 DEF LinkFirmware
<1>12. CASE Commit
  <2>1. Len(todo) \in 1..7 /\ goal # "build_linux"
    BY <1>0, <1>12, Advance, Where DEF Commit
  <2> QED BY <1>6, <1>12, <2>1 DEF Commit
<1>13. CASE Fail
  <2>1. todo # <<>> /\ todo' = <<>> /\ Half
    BY <1>13 DEF Fail
  <2>2. tree' # None /\ version' # None => tree' \subseteq {version'}
    <3>1. CASE HalfCleared
      BY <1>0, <3>1 DEF HalfCleared
    <3>2. CASE HalfStamped
      BY <1>0, <3>2 DEF HalfStamped
    <3>3. CASE HalfCompiledKernel
      <4>1. Head(todo) = "kernel"
        BY <3>3 DEF HalfCompiledKernel
      <4>2. tree # None /\ version = setting.version
        BY <1>0, <2>1, <4>1, Where DEF Stamped, Located, Within
      <4> QED BY <1>0, <3>3, <4>2 DEF HalfCompiledKernel
    <3>4. CASE HalfPacked
      BY <1>0, <3>4 DEF HalfPacked
    <3>5. CASE UNCHANGED <<tree, version>>
      BY <1>0, <3>5
    <3> QED BY <2>1, <3>1, <3>2, <3>3, <3>4, <3>5 DEF Half, HalfInvalidated, HalfCompiled
  <2> QED BY <2>1, <2>2, NoTodo DEF Stamped
<1>14. CASE Refuse
  BY <1>0, <1>14, NoTodo DEF Refuse, Stamped
<1>15. ASSUME NEW g \in GoalNames, Start(g, Steps(g)), g \in Alone \cup {"build"} PROVE Stamped'
  <2>1. goal' = g /\ g # "install_initramfs" /\ UNCHANGED <<tree, version>>
    BY <1>15, StartTodo DEF Start
  <2> QED BY <1>0, <1>15, <2>1, StartWithin DEF Stamped
<1>16. ASSUME UNCHANGED <<goal, todo, tree, version>>, todo = <<>> \/ UNCHANGED setting PROVE Stamped'
  <2>1. CASE todo = <<>>
    BY <1>0, <1>16, <2>1, NoTodo DEF Stamped
  <2>2. CASE UNCHANGED setting
    BY <1>0, <1>16, <2>2, SameTodo DEF Stamped
  <2> QED BY <1>16, <2>1, <2>2
<1>17. CASE Edit
  BY <1>16, <1>17 DEF Edit
<1>18. ASSUME NEW s \in Settings, Configure(s) PROVE Stamped'
  BY <1>16, <1>18 DEF Configure
<1>19. CASE UNCHANGED vars
  BY <1>16, <1>19 DEF vars
<1> QED BY <1>1, <1>2, <1>3, <1>4, <1>5, <1>7, <1>8, <1>9, <1>10, <1>11, <1>12, <1>13, <1>14, <1>15,
           <1>17, <1>18, <1>19, StartCases DEF Next, Make

\* build_linux never compiles a kernel into the objects of another version
\* (configure_kernel and its stamp in the Makefile), for any presets and wherever
\* builds are killed, when install_initramfs is only run by `make build`.
THEOREM TreeCorrect ==
  ASSUME "install_initramfs" \notin Alone PROVE Spec => []TreeOfVersion
<1>1. Init => Stamped
  BY DEF Init, Stamped, Within
<1>2. TypeInv /\ Stamped => TreeOfVersion
  <2> SUFFICES ASSUME TypeInv, Stamped, todo # <<>>, Head(todo) = "kernel", goal \in {"build", "build_linux"}
               PROVE  tree \subseteq {setting.version}
    BY DEF TreeOfVersion
  <2>1. tree # None /\ version = setting.version
    BY Where DEF TypeInv, Stamped, Located, Within
  <2>2. setting.version # None
    BY SettingType DEF TypeInv, TypeOK
  <2> QED BY <2>1, <2>2 DEF Stamped
<1>3. TypeInv /\ Stamped /\ [Next]_vars => Stamped'
  BY StampedStep
<1> QED BY <1>1, <1>2, <1>3, InitOK, TypeStep, PTL DEF Spec

\* The goals that prepare-opensbi.py is a part of, when it and n steps more are
\* ahead.
Opensbis(n) == Within("build", n) \/ Within("build_opensbi_with_kernel", n)

Wanted == [isas |-> {setting.isa}, image |-> image, fdt |-> setting.fdt]

\* What is found is of the inputs that the stamp names, except after OpenSBI's make
\* has run, when it is of those that are set.
Identified ==
  /\ ~Opensbis(2) /\ stamp # None =>
       /\ \A t \in Trees : objects[t] \subseteq {stamp.isa}
       /\ firmware # None => firmware = [isas |-> {stamp.isa}, image |-> stamp.image, fdt |-> stamp.fdt]
  /\ Opensbis(4) =>
       /\ Placed /\ \A t \in Trees : objects[t] \subseteq {setting.isa}
       /\ firmware # None => firmware = Wanted
  /\ Opensbis(3) => pending = Inputs(setting, image)
  /\ Opensbis(1) => firmware = Wanted

\* The steps from prepare-opensbi.py to the mv, one after the other.
LEMMA OpensbisNext ==
  ASSUME TodoInv, NEW s, Step(s), NEW n \in Nat, Opensbis(n)'
  PROVE  goal \in {"build", "build_opensbi_with_kernel"} /\ Len(todo) \in 2..n + 1
BY StepWithin DEF Opensbis

\* A step that is not the last leaves the later ones ahead.
LEMMA OpensbisLater ==
  ASSUME TodoInv, NEW s, Step(s), goal \in {"build", "build_opensbi_with_kernel"}, NEW n \in Nat \ {0}, Len(todo) = n + 1
  PROVE  Opensbis(n)'
<1>1. todo \in Seq(StepNames) /\ todo # <<>> /\ todo' = Tail(todo) /\ goal' = goal
  BY DEF TodoInv, Step
<1>2. Len(todo') = n /\ todo' # <<>>
  <2>1. Len(todo') = Len(todo) - 1
    BY <1>1
  <2>2. (n + 1) - 1 = n /\ n # 0
    OBVIOUS
  <2>3. todo' = <<>> => Len(todo') = 0
    OBVIOUS
  <2> QED BY <2>1, <2>2, <2>3
<1>3. Len(todo') \in 1..n
  BY <1>2
<1> QED BY <1>1, <1>2, <1>3 DEF Opensbis, Within

\* After OpenSBI's make has compiled, only the link and the mv are left.
LEMMA LastTwo ==
  ASSUME TodoInv, Opensbis(2) PROVE Head(todo) \in {"link", "commit"}
<1>1. todo # <<>> /\ Len(todo) \in 1..2 /\ goal \in {"build", "build_opensbi_with_kernel"}
  BY DEF Opensbis, Within
<1>2. Len(todo) = 1 \/ Len(todo) = 2
  BY <1>1
<1>3. ASSUME goal = "build" PROVE Head(todo) \in {"link", "commit"}
  <2>1. Head(todo) = Build[13 - Len(todo)]
    BY <1>1, <1>3, StepAtHand
  <2>2. 13 - 1 = 12 /\ 13 - 2 = 11
    OBVIOUS
  <2> QED BY <1>2, <2>1, <2>2, BuildSteps
<1>4. ASSUME goal = "build_opensbi_with_kernel" PROVE Head(todo) \in {"link", "commit"}
  <2>1. Head(todo) = Opensbi[6 - Len(todo)]
    BY <1>1, <1>4, StepAtHand
  <2>2. 6 - 1 = 5 /\ 6 - 2 = 4
    OBVIOUS
  <2> QED BY <1>2, <2>1, <2>2, Lists
<1> QED BY <1>1, <1>3, <1>4

\* What does not touch OpenSBI's outputs, or only removes the payload, leaves them
\* identified.
LEMMA IdentifiedElsewhere ==
  ASSUME Identified, ~Opensbis(2), ~Opensbis(4)', ~Opensbis(3)', ~Opensbis(1)',
         UNCHANGED <<objects, stamp>>, firmware' = firmware \/ firmware' = None
  PROVE  Identified'
<1>1. stamp' # None =>
        /\ \A t \in Trees : objects'[t] \subseteq {stamp'.isa}
        /\ firmware' # None => firmware' = [isas |-> {stamp'.isa}, image |-> stamp'.image, fdt |-> stamp'.fdt]
  BY DEF Identified
<1> QED BY <1>1 DEF Identified

\* prepare-opensbi.py removes what the stamp says is of other inputs, and nothing
\* stops between OpenSBI's make and the mv that names the new ones.
LEMMA IdentifiedStep ==
  ASSUME TypeInv, Identified, [Next]_vars, CrashPoints \cap {"compile", "link", "commit"} = {}
  PROVE  Identified'
<1> USE DEF kernel, opensbi
<1>0. TodoInv /\ TypeOK /\ Located
  BY DEF TypeInv
<1>1. ASSUME NEW s, Step(s), UNCHANGED opensbi,
             (goal = "build" /\ Len(todo) \in 6..12) \/ goal \notin {"build", "build_opensbi_with_kernel"}
      PROVE  Identified'
  <2>1. ~Opensbis(2)
    BY <1>0, <1>1 DEF Opensbis, Within
  <2>2. ~(goal \in {"build", "build_opensbi_with_kernel"} /\ Len(todo) \in 2..5)
    BY <1>1
  <2>3. 2..4 \subseteq 2..5 /\ 2..2 \subseteq 2..5
    OBVIOUS
  <2>4. ~Opensbis(4)'
    BY <1>0, <1>1, <2>2, OpensbisNext, 4 + 1 = 5
  <2>5. ~Opensbis(3)'
    BY <1>0, <1>1, <2>2, <2>3, OpensbisNext, 3 + 1 = 4
  <2>6. ~Opensbis(1)'
    BY <1>0, <1>1, <2>2, <2>3, OpensbisNext, 1 + 1 = 2
  <2> QED BY <1>1, <2>1, <2>4, <2>5, <2>6, IdentifiedElsewhere
<1>2. CASE ClearTree
  <2>1. (goal = "build" /\ Len(todo) \in 6..12) \/ goal \notin {"build", "build_opensbi_with_kernel"}
    BY <1>0, <1>2, Advance, Where DEF ClearTree
  <2> QED BY <1>1, <1>2, <2>1 DEF ClearTree
<1>3. CASE StampTree
  <2>1. (goal = "build" /\ Len(todo) \in 6..12) \/ goal \notin {"build", "build_opensbi_with_kernel"}
    BY <1>0, <1>3, Advance, Where DEF StampTree
  <2> QED BY <1>1, <1>3, <2>1 DEF StampTree
<1>4. CASE Defconfig
  <2>1. (goal = "build" /\ Len(todo) \in 6..12) \/ goal \notin {"build", "build_opensbi_with_kernel"}
    BY <1>0, <1>4, Advance, Where DEF Defconfig
  <2> QED BY <1>1, <1>4, <2>1 DEF Defconfig
<1>5. CASE BuildImage
  <2>1. (goal = "build" /\ Len(todo) \in 6..12) \/ goal \notin {"build", "build_opensbi_with_kernel"}
    BY <1>0, <1>5, Advance, Where DEF BuildImage
  <2> QED BY <1>1, <1>5, <2>1 DEF BuildImage
<1>6. CASE PackInitramfs
  <2>1. (goal = "build" /\ Len(todo) \in 6..12) \/ goal \notin {"build", "build_opensbi_with_kernel"}
    BY <1>0, <1>6, Advance, Where DEF PackInitramfs
  <2> QED BY <1>1, <1>6, <2>1 DEF PackInitramfs
<1>7. CASE Embed
  <2>1. (goal = "build" /\ Len(todo) \in 6..12) \/ goal \notin {"build", "build_opensbi_with_kernel"}
    BY <1>0, <1>7, Advance, Where DEF Embed
  <2> QED BY <1>1, <1>7, <2>1 DEF Embed
<1>8. CASE Invalidate
  <2>1. goal \in {"build", "build_opensbi_with_kernel"} /\ Len(todo) = 5 /\ todo # <<>> /\ Step("invalidate")
    BY <1>0, <1>8, Advance, Where DEF Invalidate
  <2>2. ~Opensbis(2)
    BY <2>1 DEF Opensbis, Within
  <2>3. ~Opensbis(3)'
    BY <1>0, <2>1, OpensbisNext, 3 + 1 = 4
  <2>4. ~Opensbis(1)'
    BY <1>0, <2>1, OpensbisNext, 1 + 1 = 2
  <2>5. Placed' /\ UNCHANGED <<setting, image, stamp>>
    BY <1>8 DEF Invalidate, Step, Placed
  <2>6. CASE OtherIdentity
    <3>1. firmware' = None /\ \A t \in Trees : objects'[t] = {}
      BY <1>8, <2>6 DEF Invalidate
    <3> QED BY <2>3, <2>4, <2>5, <3>1 DEF Identified
  <2>7. CASE ~OtherIdentity
    <3>1. stamp # None /\ stamp.isa = setting.isa /\ UNCHANGED objects
      BY <1>8, <2>7 DEF Invalidate, OtherIdentity
    <3>2. /\ \A t \in Trees : objects[t] \subseteq {setting.isa}
          /\ firmware # None => firmware = [isas |-> {stamp.isa}, image |-> stamp.image, fdt |-> stamp.fdt]
      BY <2>2, <3>1 DEF Identified
    <3>3. firmware' = IF stamp # Inputs(setting, image) THEN None ELSE firmware
      BY <1>8, <2>7 DEF Invalidate
    <3>4. ASSUME firmware' # None
          PROVE  /\ firmware' = [isas |-> {stamp.isa}, image |-> stamp.image, fdt |-> stamp.fdt]
                 /\ firmware' = Wanted
      <4>1. stamp = Inputs(setting, image) /\ firmware' = firmware
        BY <3>3, <3>4
      <4>2. stamp.image = image /\ stamp.fdt = setting.fdt
        BY <4>1 DEF Inputs
      <4> QED BY <3>1, <3>2, <3>4, <4>1, <4>2 DEF Wanted
    <3>5. Wanted' = Wanted
      BY <2>5 DEF Wanted
    <3> QED BY <2>3, <2>4, <2>5, <3>1, <3>2, <3>4, <3>5 DEF Identified
  <2> QED BY <2>6, <2>7
<1>9. CASE WritePending
  <2>1. goal \in {"build", "build_opensbi_with_kernel"} /\ Len(todo) = 4 /\ todo # <<>> /\ Step("pending")
    BY <1>0, <1>9, Advance, Where DEF WritePending
  <2>2. ~Opensbis(2) /\ Opensbis(4)
    BY <2>1 DEF Opensbis, Within
  <2>3. ~Opensbis(1)'
    BY <1>0, <2>1, OpensbisNext, 1 + 1 = 2
  <2>4. UNCHANGED <<setting, image, stamp, objects, firmware>> /\ pending' = Inputs(setting, image)
    BY <1>9 DEF WritePending, Step
  <2>5. Wanted' = Wanted /\ Placed' = Placed /\ Inputs(setting, image)' = Inputs(setting, image)
    BY <2>4 DEF Wanted, Placed, Inputs
  <2> QED BY <2>2, <2>3, <2>4, <2>5 DEF Identified
<1>10. CASE Compile
  <2>1. goal \in {"build", "build_opensbi_with_kernel"} /\ Len(todo) = 3 /\ todo # <<>> /\ Step("compile")
    BY <1>0, <1>10, Advance, Where DEF Compile
  <2>2. Opensbis(3) /\ Opensbis(4)
    BY <2>1 DEF Opensbis, Within
  <2>3. ~Opensbis(1)'
    BY <1>0, <2>1, OpensbisNext, 1 + 1 = 2
  <2>4. Opensbis(2)'
    BY <1>0, <2>1, OpensbisLater, 2 + 1 = 3
  <2>5. UNCHANGED <<setting, image, stamp, pending>> /\ (firmware' = firmware \/ firmware' = None)
    BY <1>10 DEF Compile, Step
  <2>6. Wanted' = Wanted /\ Placed' = Placed /\ Inputs(setting, image)' = Inputs(setting, image)
    BY <2>5 DEF Wanted, Placed, Inputs
  <2>7. \A t \in Trees : objects[t] \subseteq {setting.isa}
    BY <2>2 DEF Identified
  <2>8. \A t \in Trees : objects'[t] \subseteq {setting.isa}
    BY <1>10, <2>7 DEF Compile, Compiled
  <2> QED BY <2>2, <2>3, <2>4, <2>5, <2>6, <2>8 DEF Identified
<1>11. CASE LinkFirmware
  <2>1. goal \in {"build", "build_opensbi_with_kernel"} /\ Len(todo) = 2 /\ todo # <<>> /\ Step("link")
    BY <1>0, <1>11, Advance, Where DEF LinkFirmware
  <2>2. Opensbis(2) /\ Opensbis(3) /\ Opensbis(4)
    BY <2>1 DEF Opensbis, Within
  <2>3. Opensbis(1)'
    BY <1>0, <2>1, OpensbisLater, 1 + 1 = 2
  <2>4. Opensbis(2)'
    BY <2>3 DEF Opensbis, Within
  <2>5. UNCHANGED <<setting, image, stamp, pending, objects>>
    BY <1>11 DEF LinkFirmware, Step
  <2>6. Wanted' = Wanted /\ Placed' = Placed /\ Inputs(setting, image)' = Inputs(setting, image)
    BY <2>5 DEF Wanted, Placed, Inputs
  <2>7. \A t \in Trees : objects[t] \subseteq {setting.isa} /\ objects[t] # {}
    BY <1>0, <2>2 DEF Identified, TypeOK, Located, Opensbis
  <2>8. \A t \in Trees : objects[t] = {setting.isa}
    BY <2>7
  <2>9. UNION {objects[t] : t \in Trees} = {setting.isa}
    BY <2>8 DEF Trees
  <2>10. firmware' = Wanted
    BY <1>11, <2>2, <2>9 DEF LinkFirmware, Identified, Wanted
  <2> QED BY <2>2, <2>4, <2>5, <2>6, <2>10 DEF Identified
<1>12. CASE Commit
  <2>1. goal \in {"build", "build_opensbi_with_kernel"} /\ Len(todo) = 1 /\ todo # <<>> /\ Step("commit")
    BY <1>0, <1>12, Advance, Where DEF Commit
  <2>2. Opensbis(1) /\ Opensbis(3) /\ Opensbis(4)
    BY <2>1 DEF Opensbis, Within
  <2>3. \A n \in Nat : ~Opensbis(n)'
    BY <1>0, <2>1, OpensbisNext
  <2>4. stamp' = Inputs(setting, image) /\ UNCHANGED <<setting, image, objects, firmware>>
    BY <1>12, <2>2 DEF Commit, Step, Identified
  <2>5. stamp'.isa = setting.isa /\ stamp'.image = image /\ stamp'.fdt = setting.fdt
    BY <2>4 DEF Inputs
  <2>6. /\ \A t \in Trees : objects'[t] \subseteq {stamp'.isa}
        /\ firmware' = [isas |-> {stamp'.isa}, image |-> stamp'.image, fdt |-> stamp'.fdt]
    BY <2>2, <2>4, <2>5 DEF Identified, Wanted
  <2> QED BY <2>3, <2>6 DEF Identified
<1>13. ASSUME todo' = <<>>, UNCHANGED <<objects, stamp>>, firmware' = firmware \/ firmware' = None, ~Opensbis(2)
       PROVE  Identified'
  <2>1. ~Opensbis(1)' /\ ~Opensbis(3)' /\ ~Opensbis(4)'
    BY <1>13 DEF Opensbis, Within
  <2> QED BY <1>13, <2>1, IdentifiedElsewhere
<1>14. CASE Fail
  <2>1. Head(todo) \notin {"compile", "link", "commit"} /\ todo' = <<>> /\ Half
    BY <1>14 DEF Fail
  <2>2. ~Opensbis(2)
    BY <1>0, <2>1, LastTwo
  <2>3. UNCHANGED <<objects, stamp>> /\ (firmware' = firmware \/ firmware' = None)
    BY <2>1 DEF Half, HalfCleared, HalfStamped, HalfCompiledKernel, HalfPacked, HalfInvalidated, HalfCompiled
  <2> QED BY <1>13, <2>1, <2>2, <2>3
<1>15. CASE Refuse
  <2>1. ~Opensbis(2)
    BY <1>0, <1>15, LastTwo DEF Refuse
  <2> QED BY <1>13, <1>15, <2>1 DEF Refuse
<1>16. ASSUME NEW g \in GoalNames, Start(g, Steps(g)) PROVE Identified'
  <2>1. ~Opensbis(2) /\ UNCHANGED opensbi
    BY <1>16 DEF Start, Opensbis, Within
  <2>2. ~Opensbis(4)' /\ ~Opensbis(3)' /\ ~Opensbis(1)'
    BY <1>16, StartWithin DEF Opensbis
  <2> QED BY <2>1, <2>2, IdentifiedElsewhere
<1>17. CASE Edit
  <2>1. todo = <<>> /\ todo' = <<>> /\ UNCHANGED opensbi
    BY <1>17 DEF Edit
  <2> QED BY <1>13, <2>1 DEF Opensbis, Within
<1>18. ASSUME NEW s \in Settings, Configure(s) PROVE Identified'
  <2>1. todo = <<>> /\ todo' = <<>> /\ UNCHANGED opensbi
    BY <1>18 DEF Configure
  <2> QED BY <1>13, <2>1 DEF Opensbis, Within
<1>19. CASE UNCHANGED vars
  BY <1>19 DEF vars, Identified, Opensbis, Within, Placed, Wanted, Inputs
<1> QED BY <1>2, <1>3, <1>4, <1>5, <1>6, <1>7, <1>8, <1>9, <1>10, <1>11, <1>12, <1>14, <1>15, <1>16,
           <1>17, <1>18, <1>19, StartCases DEF Next, Make

\* build_opensbi_with_kernel, when it succeeds, leaves the firmware of the preset
\* and of the Image (prepare-opensbi.py), for any presets, goals and kills before
\* OpenSBI's make.
THEOREM FirmwareCorrect ==
  ASSUME CrashPoints \cap {"compile", "link", "commit"} = {} PROVE Spec => FirmwareCurrent
<1>1. Init => Identified
  BY DEF Init, Identified, Opensbis, Within
<1>2. TypeInv /\ Identified /\ [Next]_vars => Identified'
  BY IdentifiedStep
<1>3. TypeInv /\ Identified =>
        [Commit =>
           /\ firmware = [isas |-> {setting.isa}, image |-> image, fdt |-> setting.fdt]
           /\ <<firmware.image.version, firmware.fdt>> \notin Overlapping]_vars
  <2> SUFFICES ASSUME TypeInv, Identified, Commit
               PROVE  /\ firmware = [isas |-> {setting.isa}, image |-> image, fdt |-> setting.fdt]
                      /\ <<firmware.image.version, firmware.fdt>> \notin Overlapping
    OBVIOUS
  <2>1. goal \in {"build", "build_opensbi_with_kernel"} /\ Len(todo) = 1 /\ todo # <<>>
    BY Advance, Where DEF Commit, TypeInv
  <2>2. Opensbis(1) /\ Opensbis(4)
    BY <2>1 DEF Opensbis, Within
  <2>3. firmware = Wanted /\ Placed
    BY <2>2 DEF Identified
  <2>4. firmware.image = image /\ firmware.fdt = setting.fdt
    BY <2>3 DEF Wanted
  <2> QED BY <2>3, <2>4 DEF Wanted, Placed
<1> QED BY <1>1, <1>2, <1>3, InitOK, TypeStep, PTL DEF Spec, FirmwareCurrent

\* What `make build` has made so far.
Built ==
  /\ Within("build", 7) => cpio = payload
  /\ Within("build", 6) => embedded = TRUE
  /\ Within("build", 5) => image = [version |-> setting.version, init |-> payload]

\* What a step must leave for the rest of `make build`.
LEMMA BuiltNext ==
  ASSUME TodoInv, NEW s, Step(s), goal = "build" => Len(todo) \in 1..12,
         goal = "build" /\ Len(todo) \in 2..8 => cpio' = payload,
         goal = "build" /\ Len(todo) \in 2..7 => embedded' = TRUE,
         goal = "build" /\ Len(todo) \in 2..6 => image' = [version |-> setting.version, init |-> payload]
  PROVE  Built'
<1>1. UNCHANGED <<setting, payload>>
  BY DEF Step
<1>2. Within("build", 7)' => cpio' = payload'
  BY <1>1, StepWithin, 7 + 1 = 8
<1>3. Within("build", 6)' => embedded' = TRUE
  <2>1. Within("build", 6)' => goal = "build" /\ Len(todo) \in 2..7
    BY StepWithin, 6 + 1 = 7
  <2> QED BY <2>1
<1>4. Within("build", 5)' => image' = [version |-> setting'.version, init |-> payload']
  BY <1>1, StepWithin, 5 + 1 = 6
<1> QED BY <1>2, <1>3, <1>4 DEF Built

\* What the steps of `make build` find.
LEMMA BuiltNow ==
  ASSUME Built, todo # <<>>, goal = "build"
  PROVE  /\ Len(todo) \in 1..7 => cpio = payload
         /\ Len(todo) \in 1..6 => embedded = TRUE
         /\ Len(todo) \in 1..5 => image = [version |-> setting.version, init |-> payload]
<1>1. Len(todo) \in 1..7 => cpio = payload
  BY DEF Built, Within
<1>2. Len(todo) \in 1..6 => embedded = TRUE
  BY Zenon DEF Built, Within
<1>3. Len(todo) \in 1..5 => image = [version |-> setting.version, init |-> payload]
  BY DEF Built, Within
<1> QED BY <1>1, <1>2, <1>3, Zenon

\* The steps of `make build` are in the order of what they need.
LEMMA BuiltStep ==
  ASSUME TypeInv, Built, [Next]_vars PROVE Built'
<1> USE DEF kernel, opensbi
<1>0. TodoInv
  BY DEF TypeInv
<1>1. ASSUME NEW s, Step(s), (goal = "build" /\ Len(todo) \in 9..12) \/ goal # "build"
      PROVE  Built'
  <2>1. ~(goal = "build" /\ Len(todo) \in 2..8)
    BY <1>1
  <2>2. 2..7 \subseteq 2..8 /\ 2..6 \subseteq 2..8 /\ 9..12 \subseteq 1..12
    OBVIOUS
  <2> QED BY <1>0, <1>1, <2>1, <2>2, BuiltNext
<1>2. CASE ClearTree
  <2>1. (goal = "build" /\ Len(todo) \in 9..12) \/ goal # "build"
    BY <1>0, <1>2, Advance, Where DEF ClearTree
  <2> QED BY <1>1, <1>2, <2>1 DEF ClearTree
<1>3. CASE StampTree
  <2>1. (goal = "build" /\ Len(todo) \in 9..12) \/ goal # "build"
    BY <1>0, <1>3, Advance, Where DEF StampTree
  <2> QED BY <1>1, <1>3, <2>1 DEF StampTree
<1>4. CASE Defconfig
  <2>1. (goal = "build" /\ Len(todo) \in 9..12) \/ goal # "build"
    BY <1>0, <1>4, Advance, Where DEF Defconfig
  <2> QED BY <1>1, <1>4, <2>1 DEF Defconfig
<1>5. CASE BuildImage
  <2>1. (goal = "build" /\ Len(todo) \in {6, 9}) \/ goal # "build"
    BY <1>0, <1>5, Advance, Where DEF BuildImage
  <2>2. CASE goal = "build" /\ Len(todo) = 6
    <3>0. Len(todo) \in 1..6 /\ Len(todo) \in 1..7
      BY <2>2
    <3>1. embedded = TRUE /\ cpio = payload /\ todo # <<>>
      <4>1. todo # <<>>
        BY <1>0, <1>5, Advance DEF BuildImage
      <4> QED BY <2>2, <3>0, <4>1, BuiltNow, Zenon
    <3>2. image' = [version |-> setting.version, init |-> payload]
      BY <1>5, <3>1, Zenon DEF BuildImage
    <3>3. embedded' = TRUE /\ cpio' = payload
      BY <1>5, <3>1, Zenon DEF BuildImage
    <3> QED BY <1>0, <1>5, <2>2, <3>2, <3>3, 6 \in 1..12, BuiltNext DEF BuildImage
  <2>3. CASE ~(goal = "build" /\ Len(todo) = 6)
    BY <1>1, <1>5, <2>1, <2>3 DEF BuildImage
  <2> QED BY <2>2, <2>3
<1>6. CASE PackInitramfs
  <2>1. (goal = "build" /\ Len(todo) = 8) \/ goal # "build"
    BY <1>0, <1>6, Advance, Where DEF PackInitramfs
  <2>2. ~(goal = "build" /\ Len(todo) \in 2..7) /\ ~(goal = "build" /\ Len(todo) \in 2..6)
    BY <2>1
  <2>3. goal = "build" => Len(todo) \in 1..12
    BY <2>1
  <2> QED BY <1>0, <1>6, <2>2, <2>3, BuiltNext DEF PackInitramfs
<1>7. CASE Embed
  <2>1. (goal = "build" /\ Len(todo) = 7) \/ goal # "build"
    BY <1>0, <1>7, Advance, Where DEF Embed
  <2>2. ~(goal = "build" /\ Len(todo) \in 2..6) /\ (goal = "build" => Len(todo) \in 1..12)
    BY <2>1
  <2>3. goal = "build" => cpio' = payload
    <3>1. goal = "build" => cpio = payload
      BY <1>0, <1>7, <2>1, Advance, BuiltNow, 7 \in 1..7 DEF Embed
    <3> QED BY <1>7, <3>1 DEF Embed
  <2>4. embedded' = TRUE
    BY <1>7, Zenon DEF Embed
  <2> QED BY <1>0, <1>7, <2>2, <2>3, <2>4, BuiltNext, Zenon DEF Embed
<1>8. ASSUME NEW s, Step(s), UNCHANGED kernel, Len(todo) \in 1..5
      PROVE  Built'
  <2>1. todo # <<>> /\ 1..5 \subseteq 1..6 /\ 1..5 \subseteq 1..7 /\ 1..5 \subseteq 1..12
    BY <1>8 DEF Step
  <2>2. ASSUME goal = "build" PROVE cpio = payload /\ embedded = TRUE /\ image = [version |-> setting.version, init |-> payload]
    BY <1>8, <2>1, <2>2, BuiltNow, Zenon
  <2>3. /\ goal = "build" => cpio' = payload
        /\ goal = "build" => embedded' = TRUE
        /\ goal = "build" => image' = [version |-> setting.version, init |-> payload]
    BY <1>8, <2>2, Zenon
  <2> QED BY <1>0, <1>8, <2>1, <2>3, BuiltNext, Zenon
<1>9. CASE Invalidate
  <2>1. Len(todo) \in 1..5
    BY <1>0, <1>9, Advance, Where DEF Invalidate
  <2> QED BY <1>8, <1>9, <2>1 DEF Invalidate
<1>10. CASE WritePending
  <2>1. Len(todo) \in 1..5
    BY <1>0, <1>10, Advance, Where DEF WritePending
  <2> QED BY <1>8, <1>10, <2>1 DEF WritePending
<1>11. CASE Compile
  <2>1. Len(todo) \in 1..5
    BY <1>0, <1>11, Advance, Where DEF Compile
  <2> QED BY <1>8, <1>11, <2>1 DEF Compile
<1>12. CASE LinkFirmware
  <2>1. Len(todo) \in 1..5
    BY <1>0, <1>12, Advance, Where DEF LinkFirmware
  <2> QED BY <1>8, <1>12, <2>1 DEF LinkFirmware
<1>13. CASE Commit
  <2>1. Len(todo) \in 1..5
    BY <1>0, <1>13, Advance, Where DEF Commit
  <2> QED BY <1>8, <1>13, <2>1 DEF Commit
<1>14. CASE Fail
  BY <1>14, NoTodo DEF Fail, Built
<1>15. CASE Refuse
  BY <1>15, NoTodo DEF Refuse, Built
<1>16. ASSUME NEW g \in GoalNames, Start(g, Steps(g)) PROVE Built'
  <2>1. ~Within("build", 7)' /\ ~Within("build", 6)' /\ ~Within("build", 5)'
    BY <1>16, StartWithin
  <2> QED BY <2>1 DEF Built
<1>17. ASSUME todo' = <<>> PROVE Built'
  BY <1>17, NoTodo DEF Built
<1>18. CASE Edit
  BY <1>17, <1>18 DEF Edit
<1>19. ASSUME NEW s \in Settings, Configure(s) PROVE Built'
  BY <1>17, <1>19 DEF Configure
<1>20. CASE UNCHANGED vars
  BY <1>20 DEF vars, Built, Within
<1> QED BY <1>2, <1>3, <1>4, <1>5, <1>6, <1>7, <1>9, <1>10, <1>11, <1>12, <1>13, <1>14, <1>15, <1>16,
           <1>18, <1>19, <1>20, StartCases DEF Next, Make

\* `make build`, when it succeeds, leaves the kernel version of the preset and the
\* tiny shell as it is in payload/ (the order of its goals in the Makefile).
THEOREM ShellCurrent ==
  ASSUME CrashPoints \cap {"compile", "link", "commit"} = {} PROVE Spec => BuildCurrent
<1>1. Init => Identified /\ Built
  BY DEF Init, Identified, Opensbis, Built, Within
<1>2. TypeInv /\ Identified /\ [Next]_vars => Identified'
  BY IdentifiedStep
<1>3. TypeInv /\ Built /\ [Next]_vars => Built'
  BY BuiltStep
<1>4. TypeInv /\ Identified /\ Built =>
        [Commit /\ goal = "build" => firmware.image = [version |-> setting.version, init |-> payload]]_vars
  <2> SUFFICES ASSUME TypeInv, Identified, Built, Commit, goal = "build"
               PROVE  firmware.image = [version |-> setting.version, init |-> payload]
    OBVIOUS
  <2>1. Len(todo) = 1 /\ todo # <<>>
    BY Advance, Where DEF Commit, TypeInv
  <2>2. image = [version |-> setting.version, init |-> payload]
    BY <2>1, BuiltNow, 1 \in 1..5
  <2>3. Opensbis(1)
    BY <2>1 DEF Opensbis, Within
  <2>4. firmware.image = image
    BY <2>3 DEF Identified, Wanted
  <2> QED BY <2>2, <2>4
<1> QED BY <1>1, <1>2, <1>3, <1>4, InitOK, TypeStep, PTL DEF Spec, BuildCurrent
=============================================================================
