SPECIFICATION Spec
CONSTANTS
  Makes = {m1, m2}
  Files = {f1, f2, f3, f4}
  Versions = {v1, v2}
  v1 = v1
  v2 = v2
  Standard = v1
  Pieces = 2
  Presets <- ThePresets
  Worlds <- TheWorlds
  None = None
INVARIANTS TypeOK SourceVerified OnePreset
PROPERTIES ImplementsSources
SYMMETRY Alike
