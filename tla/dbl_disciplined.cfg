CONSTANTS
  s1 = s1  s2 = s2  s3 = s3
  h1 = h1  h2 = h2
  NoHost = NoHost
  NoSock = NoSock
  Socks = {s1, s2, s3}
  Hosts = {h1, h2}
  Ports = {1}
  OpenFlags = {2}
  MaxDevices = 2
  MaxChannels = 2
  MaxHandles = 2
  Rules = {"no_call_after_close", "constructed_only", "bindAddr_before_channel",
           "connect_before_handle", "disconnect_before_unbind",
           "latest_binder_listens", "two_byte_datagrams"}
SPECIFICATION PSpec
SYMMETRY SockSymmetry
CHECK_DEADLOCK FALSE
INVARIANTS
  PTypeOK
  NoCrash
  LinkedThroughOwnChannel
  ListensOnOwnChannel
PROPERTIES
  OthersAreLeftAlone
