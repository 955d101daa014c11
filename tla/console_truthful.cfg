SPECIFICATION FairSpec
CONSTANTS
  Suites <- Packages
  MaxNoise = 2
INVARIANTS PassedRan ActualReboot
PROPERTIES Verdict
