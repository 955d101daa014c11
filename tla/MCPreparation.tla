--------------------------- MODULE MCPreparation ---------------------------
(* Presets of both widths, with and without Buildroot, for a disk, and one *)
(* that is refused; goals in turn, or two builds of one preset at once.    *)
EXTENDS Preparation, TLC

CONSTANTS v1, v2

Rv32 ==
  [preset |-> "rv32", arch |-> "riscv32", version |-> v1, sections |-> {"buildroot"},
   kernel |-> [HZ |-> 100, SMP |-> FALSE], minimal |-> [FPU |-> FALSE, SMP |-> TRUE],
   buildroot |-> [FPU |-> TRUE], packages |-> {"openssh"}, shell |-> "bash"]
Rv64 ==
  [preset |-> "rv64", version |-> v2, sections |-> {}, compression |-> "zstd",
   minimalFpu |-> TRUE, kernel |-> [HZ |-> 250]]
Alpine == [preset |-> "alpine", rootfs |-> "alpine", sections |-> {}, distro |-> [FPU |-> TRUE]]
Narrow32Alpine == [Alpine EXCEPT !.preset = "rv32-alpine"] ++ [arch |-> "riscv32"]

ThePresets == {Rv32, Rv64, Alpine, Narrow32Alpine}

TheWorlds ==
  {[serial |-> TRUE, honest |-> FALSE, cuts |-> 1, presets |-> ThePresets],
   [serial |-> FALSE, honest |-> TRUE, cuts |-> 0, presets |-> {Rv32}]}

Alike == Permutations(Makes) \cup Permutations(Files)
=============================================================================
