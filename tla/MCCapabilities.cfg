SPECIFICATION Spec
CONSTANTS
  NSlots = 3
  Channels = {c1}
  MaxCaps = 1
  MaxQuota = 1
  MaxId = 3
  Manage = manage
  Uses = {send}
  Asked = {{send}, {send, manage}}
  NoTask = notask
INVARIANTS
  
  RevocationFinal
  QuotaCovers
PROPERTIES
  NoAmplification
CHECK_DEADLOCK FALSE
