SPECIFICATION Spec
CONSTANTS
  Keys = {k1, k2, k3}
  Data = {x, y}
  Tasks = {desk}
  Preemptible = {desk}
  NBlocks = 2
  NFds = 2
  MaxLen = 2
  MaxSeq = 3
  RecordFaults = TRUE
  ReadFaults = FALSE
  NoTask = NoTask
  NoFile = NoFile
INVARIANTS
  TypeOK
  
  

  
