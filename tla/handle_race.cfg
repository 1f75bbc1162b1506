CONSTANTS
  t1 = t1  t2 = t2  t3 = t3
  h1 = h1  h2 = h2
  Threads = {t1, t2, t3}
  NoThread = NoThread
  Hosts = {h1, h2}
  HostOf <- MCHostOf
  MaxEntries = 2
  Apart = TRUE
SPECIFICATION RSpec
SYMMETRY MCSymmetry
CHECK_DEADLOCK FALSE
INVARIANTS
  RTypeOK
  NoFault
  NoDeviceIsLost
  IndicesNameOwnObjects
PROPERTY
  KeepsPromise
