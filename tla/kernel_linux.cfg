CONSTANTS
  o1 = o1  o2 = o2  o3 = o3
  NoObj = NoObj
  Objs = {o1, o2, o3}
  Ports = {1}
  MaxFd = 5
  Windows = FALSE
  Disciplined = TRUE
SPECIFICATION KSpec
SYMMETRY ObjSymmetry
CHECK_DEADLOCK FALSE
INVARIANTS
  KTypeOK
  OwnDescriptor
  OrphansAreCounted
  FlagsAreTrue
  AcceptedCanBeServed
