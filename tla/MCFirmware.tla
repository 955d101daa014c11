----------------------------- MODULE MCFirmware -----------------------------
(* Instances of Firmware for TLC. *)
EXTENDS Firmware, TLC

CONSTANTS v1, v2, i1, i2, d1, d2

\* A preset, one of another kernel version and ISA, and one of another offset.
Presets ==
  {[version |-> v1, isa |-> i1, fdt |-> d1], [version |-> v2, isa |-> i2, fdt |-> d1],
   [version |-> v1, isa |-> i1, fdt |-> d2]}

\* The larger kernel reaches the lower DTB.
LowDtb == {<<v2, d2>>}

\* Until OpenSBI's make has compiled anything.
BeforeCompiling ==
  {"clear", "stamp", "defconfig", "kernel", "pack", "embed", "invalidate", "pending"}
=============================================================================
