CONSTANTS
  server = server  c1 = c1  c2 = c2
  Socks = {server, c1, c2}
  Server = server
  ServerIp <- MCServerIp
  Names <- MCNames
  NoAddr = NoAddr
  Garbage = Garbage
  Windows = TRUE
  ConnectFirst = TRUE
  Receivers = {server, c1, c2}
  Amounts = {}
  MaxSent = 3
  MaxDups = 1
  MaxQueue = 1
SPECIFICATION ESpec
CHECK_DEADLOCK FALSE
INVARIANTS
  ETypeOK
  OneAnswerPerRequest
  NobodyWaitsForNothing
PROPERTY
  EveryClientEnds
