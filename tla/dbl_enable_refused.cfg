CONSTANTS
  s1 = s1  s2 = s2
  h1 = h1  h2 = h2
  NoHost = NoHost
  Socks = {s1, s2}
  Hosts = {h1, h2}
  Ports = {1}
  OpenFlags = {1, 2}
  MaxDevices = 2
  MaxChannels = 2
  MaxHandles = 2
SPECIFICATION Spec
SYMMETRY SockSymmetry
CHECK_DEADLOCK FALSE
INVARIANTS
  EnableRefusalIsTrue
