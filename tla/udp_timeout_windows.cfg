CONSTANTS
  s1 = s1  s2 = s2
  a1 = a1
  Socks = {s1, s2}
  Names = {a1}
  NoAddr = NoAddr
  Garbage = Garbage
  Windows = TRUE
  ConnectFirst = TRUE
  Receivers = {s1}
  Amounts = {0, 5, 1000000}
  MaxSent = 1
  MaxDups = 1
  MaxQueue = 1
SPECIFICATION USpec
CHECK_DEADLOCK FALSE
PROPERTY
  TimeoutKept
