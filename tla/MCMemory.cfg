SPECIFICATION Spec
CONSTANTS
  s1 = s1
  s2 = s2
  Spaces = {s1, s2}
  Files = {f1}
  NFrames = 3
  NPages <- MCNPages
  PagesPerTable = 2
  MaxRegion = 2
  MaxVmAreas = 2
  MaxOwned = 2
  MaxCachePages = 1
  MaxSwapSlots = 1
  MaxSurfaces = 1
  Zero = zero
  Junk = junk
  NoSpace = nospace
INVARIANTS
  TypeOK
  Accounted
  MappingsBacked
  
