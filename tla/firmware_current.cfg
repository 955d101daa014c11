SPECIFICATION Spec
CONSTANTS
  v1 = v1
  v2 = v2
  i1 = i1
  i2 = i2
  d1 = d1
  d2 = d2
  Settings <- Presets
  Overlapping <- LowDtb
  MaxRev = 2
  None = None
  CrashPoints <- BeforeCompiling
  Alone = {"build_linux", "make_initramfs_tiny_shell", "build_opensbi_with_kernel"}
INVARIANTS TypeOK TreeOfVersion
PROPERTIES FirmwareCurrent BuildCurrent
