SPECIFICATION Spec
CONSTANTS
  u1 = u1
  u2 = u2
  f = f
  Users = {u1, u2}
  Files = {f}
  MaxConns = 3
  Requests <- SomeRequests
  Stored <- OneFile
  MaxGone = 1
  Listen = ufd
  NoConn = noconn
  NoRequest = norequest
  NoFile = nofile
  NoDir = nodir
  MAXUSERS = 4
  MaxLost = 1
INVARIANTS ConfirmedOnce ConfirmationIsOwn
PROPERTIES EveryChangeConfirmed HangsExplained
CHECK_DEADLOCK FALSE
