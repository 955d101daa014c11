SPECIFICATION Spec
CONSTANTS
  a = a
  b = b
  s = s
  t = t
  tiny = tiny
  v1 = v1
  v2 = v2
  Files = {a, s, t}
  Presets = {a}
  Variants <- OneVariant
  Version <- SameVersion
  Inputs <- ScriptInput
  Runner = {t}
  Listed = {a, s, t}
  Editable = {s}
  Optional = {}
  MaxRev = 2
  MaxEdits = 1
  MaxBuilds = 2
  CrashPoints <- NotReplacing
  OneGoal = FALSE
  None = None
INVARIANTS TypeOK TestedIsWhatRan
PROPERTIES ResumeSound
