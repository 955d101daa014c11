SPECIFICATION Spec
CONSTANTS
  a = a
  b = b
  s = s
  t = t
  tiny = tiny
  v1 = v1
  v2 = v2
  Files = {a, s, t}
  Presets = {a}
  Variants <- OneVariant
  Version <- SameVersion
  Inputs <- ScriptInput
  Runner = {t}
  Listed = {a, s, t}
  Editable = {s}
  Optional = {}
  MaxRev = 2
  MaxEdits = 1
  MaxBuilds = 3
  CrashPoints <- Everywhere
  OneGoal = TRUE
  None = None
PROPERTIES ResumeSound
