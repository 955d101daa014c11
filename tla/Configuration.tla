--------------------------- MODULE Configuration ---------------------------
(***************************************************************************)
(* What scripts/gen-config.py derives from a preset.  A preset is a record *)
(* of what its TOML file states; what it leaves out has no field.  A file  *)
(* is a function: .config.mk from make variables to values, a kernel       *)
(* fragment from symbols to their values, so that a later line of a symbol *)
(* replaces an earlier one, as scripts/config does.                        *)
(***************************************************************************)
CONSTANT Standard   \* the kernel version of a preset or a make without one

\* What f states, and what g states of the rest.
f ++ g == [x \in DOMAIN f \cup DOMAIN g |-> IF x \in DOMAIN f THEN f[x] ELSE g[x]]

Given(p, key, default) == IF key \in DOMAIN p THEN p[key] ELSE default

\* An architecture gives the width, and with the use of the FPU the ISA and ABI.
Bits == [riscv32 |-> 32, riscv64 |-> 64]
Arch(p) == Given(p, "arch", "riscv64")
IsaAbi(p, fpu) == [bits |-> Bits[Arch(p)], fpu |-> fpu]

OnDisk(rootfs) == rootfs \in {"alpine", "debian"}
Rootfs(p) == Given(p, "rootfs", "initramfs")

Refused(p) ==
  \/ Arch(p) \notin DOMAIN Bits
  \/ OnDisk(Rootfs(p)) /\ (Bits[Arch(p)] # 64 \/ Given(p, "loader", "qemu") # "qemu")

Memory(p) == Given(p, "memory", 1024)

Variables(p) ==
  [preset |-> p.preset, bits |-> Bits[Arch(p)], version |-> Given(p, "version", Standard),
   isa |-> IsaAbi(p, Given(p, "minimalFpu", FALSE)),
   isaBuildroot |-> IsaAbi(p, Given(p, "buildrootFpu", TRUE)),
   memory |-> Memory(p), memoryBuildroot |-> Given(p, "buildrootMemory", Memory(p)),
   rootfs |-> Rootfs(p), compression |-> Given(p, "compression", "gzip"),
   loader |-> Given(p, "loader", "qemu")]

\* For a disk, later lines of .config.mk replace earlier ones.
DiskVariables(p) == [variant |-> "distro", isa |-> IsaAbi(p, TRUE)]

MakeVars(p) ==
  IF OnDisk(Rootfs(p)) THEN DiskVariables(p) ++ Variables(p) ELSE Variables(p)

\* What the Makefile sets with ?= when nothing has.
Defaults ==
  LET isa == [bits |-> 32, fpu |-> FALSE]
  IN [preset |-> "", bits |-> 32, version |-> Standard, isa |-> isa, isaBuildroot |-> isa,
      memory |-> 1024, memoryBuildroot |-> 1024, rootfs |-> "initramfs", compression |-> "gzip",
      loader |-> "qemu", variant |-> "minimal"]

-----------------------------------------------------------------------------
Narrow == [NONPORTABLE |-> TRUE, ARCH_RV64I |-> FALSE, ARCH_RV32I |-> TRUE]
Zstd == [RD_ZSTD |-> TRUE, INITRAMFS_COMPRESSION_ZSTD |-> TRUE]

SharedFragment(p) ==
  Given(p, "kernel", <<>>)
    ++ (IF Given(p, "compression", "gzip") = "zstd" THEN Zstd ELSE <<>>)
    ++ (IF Arch(p) = "riscv32" THEN Narrow ELSE <<>>)
    ++ [RISCV_ISA_C |-> TRUE]

\* The shells Buildroot can make /bin/sh; another one is passed over.
Shells == {"bash", "dash", "zsh", "busybox"}

BuildrootFragment(p) ==
  LET shell == Given(p, "shell", "")
  IN [compression |-> IF Given(p, "compression", "gzip") = "zstd" THEN "zstd" ELSE "gzip",
      shell |-> IF shell \in Shells THEN shell ELSE "",
      packages |-> {"busybox"} \cup Given(p, "packages", {}) \cup ({shell} \cap {"bash"}),
      password |-> Given(p, "password", "")]

Variants == {"minimal", "buildroot", "distro"}

\* The files in the order they are written; .config.buildroot comes last, and
\* only for a preset with a section [buildroot].
Outputs == <<"mk", "kernel", "minimal", "buildroot", "distro", "userspace">>

Text(p) ==
  [mk |-> MakeVars(p), kernel |-> SharedFragment(p), userspace |-> BuildrootFragment(p)]
    ++ [v \in Variants |-> Given(p, v, <<>>)]

HasUserspace(p) == "buildroot" \in p.sections
=============================================================================
