SPECIFICATION FairSpec
CONSTANTS
  NSlots = 5
  Stacks = {1}
  Chans = {sleep, c1}
  Nil = nil
  Sleep = sleep
  Users = {1, 2, 3}
  Urgent = {}
  Sleepers = {2, 3}
  Receivers = {2}
  Senders = {1, 3}
  IrqChans = {c1}
  Display = 4
  QueueCap = 2
  SleepCap = 1
  OvfCap = 1
  MaxSleep = 2
INVARIANTS
  TypeOK
  SleepersHaveSlot
  SleepEntriesTrue
  NoLostMessageWakeup
  RecvNeverSpurious
PROPERTIES
  SleepEnds
  MessageWakes
