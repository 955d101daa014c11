SPECIFICATION FairSpec
CONSTANTS
  g1 = g1
  g2 = g2
  o1 = o1
  o2 = o2
  f1 = f1
  v1 = v1
  v2 = v2
  r1 = r1
  r2 = r2
  Packages = {g1, g2}
  Options = {o1, o2}
  OverlayFiles = {f1}
  BusyBoxVersions = {v1, v2}
  Revisions = {r1, r2}
  None = None
  Torn = Torn
  PartOf <- Suboption
  Configs <- WithSuboption
  Baselines <- NewRevision
  Ensurers = {e1, e2}
  Makers = {m1}
  CrashPoints = {"fill"}
  Serialized = FALSE
INVARIANTS Exclusive
PROPERTIES Served CertifiedStays
