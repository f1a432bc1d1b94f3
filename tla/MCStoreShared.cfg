SPECIFICATION Spec
CONSTANTS
  Keys = {k1, k2}
  Data = {x, y}
  Tasks = {desk, user}
  Preemptible = {desk}
  NBlocks = 2
  NFds = 1
  MaxLen = 2
  MaxSeq = 3
  RecordFaults = FALSE
  ReadFaults = FALSE
  NoTask = NoTask
  NoFile = NoFile
INVARIANTS
  RequestCarriesRecord
