CONSTANTS
  server = server  c1 = c1  c2 = c2
  r1 = r1  r2 = r2  r3 = r3
  Objs = {server, c1, c2, r1, r2, r3}
  NoObj = NoObj
  Server = server  Client1 = c1  Client2 = c2
  Results <- MCResults
  Ports = {1}
  Port = 1
  Pieces = 2
  MaxFd = 10
  Windows = FALSE
  Disciplined = TRUE
SPECIFICATION TSpec
CHECK_DEADLOCK FALSE
INVARIANTS
  TTypeOK
  NoCrossWait
  ServerWaitsForSomebody
PROPERTIES
  ExchangesEnd
