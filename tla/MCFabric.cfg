SPECIFICATION Spec
CONSTANTS
  Critical = {"graphd"}
  Optional = {"compositor"}
  Compositor = "compositor"
  Watched = {"graphd", "compositor"}
  ByPayload = {}
  Notices <- MCNotices
  Refusable = {"graphd", "compositor"}
  Mortal = {"graphd"}
  MaxLate = 1
  MaxLaunch = 2
  RingSize = 2
INVARIANTS
  TypeOK
  
  CoreComesFirst
  ManagerSettles
CHECK_DEADLOCK FALSE
