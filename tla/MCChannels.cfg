SPECIFICATION Spec
CONSTANTS
  n1 = n1
  r1 = r1
  f0 = f0
  f1 = f1
  NChans = 2
  RingSlots = 2
  MaxBytes = 2
  Payloads <- MCPayloads
  Named = {n1}
  Random = {r1}
  Fallback <- MCFallback
  NilUuid = nil
INVARIANTS
  TypeOK
  TableConsistent
PROPERTIES
  ImplementsMailboxes
