SPECIFICATION Spec
CONSTANTS
  a = a
  b = b
  s = s
  t = t
  tiny = tiny
  v1 = v1
  v2 = v2
  Files = {a, b, t}
  Presets = {a, b}
  Variants <- OneVariant
  Version <- NewVersion
  Inputs <- SharedInput
  Runner = {t}
  Listed = {a, b, t}
  Editable = {a, t}
  Optional = {}
  MaxRev = 2
  MaxEdits = 2
  MaxBuilds = 3
  CrashPoints <- Publishing
  OneGoal = TRUE
  None = None
INVARIANTS PublishedComplete PublishedTested PublishedCoherent
