SPECIFICATION Spec
CONSTANTS
  Users = {u1}
  MaxSessions = 3
  Udp = udpfd
  Listen = tcpuser
  NoFile = nofile
  Zero = zero
  Empty = empty
  MaxUsers = 2
  MaxSent = 5
  MaxStarts = 1
  Bounds <- AllBounds
INVARIANT NothingLeftBehind
PROPERTIES  HangsExplained
CHECK_DEADLOCK FALSE
