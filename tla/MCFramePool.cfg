SPECIFICATION Spec
CONSTANTS
  Regions <- MCRegions
  Reserved <- MCReserved
  MaxFreeSegments = 4
  MaxRun = 3
INVARIANTS
  TypeOK
  TableCanonical
PROPERTIES
  ImplementsFreeFrames
