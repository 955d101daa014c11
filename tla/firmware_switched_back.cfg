SPECIFICATION Spec
CONSTANTS
  v1 = v1
  v2 = v2
  i1 = i1
  i2 = i2
  d1 = d1
  d2 = d2
  Settings <- Presets
  Overlapping <- LowDtb
  MaxRev = 2
  None = None
  CrashPoints = {"compile"}
  Alone = {"build_opensbi_with_kernel"}
PROPERTIES FirmwareCurrent
