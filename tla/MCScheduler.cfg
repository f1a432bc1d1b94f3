SPECIFICATION Spec
CONSTANTS
  NSlots = 4
  Stacks = {1, 2, 3, 4}
  Chans = {c1}
  Nil = nil
  MaxId = 5
  ReapCap = 2
  RunqCap = 2
  PerCpu = TRUE
  InitReturns = FALSE
  Watchdog = TRUE
INVARIANTS
  TypeOK
  CpuAgrees
  StacksExclusive
  TeardownSound
  JoinWaitsForDeath
PROPERTIES
  DeathIsFinal
