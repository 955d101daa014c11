SPECIFICATION Spec
CONSTANTS
  Builders = {b1, b2}
  Outputs = {dev, rel}
  Pristine = {rel}
  MaxRev = 2
  MaxBoot = 2
  MaxDisks = 3
  MaxGuest = 1
  None = None
  Torn = Torn
INVARIANTS TypeOK AuditedIsPristine
PROPERTIES NeverOverwritten ImplementsDiskStore
SYMMETRY Alike
