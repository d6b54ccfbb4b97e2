SPECIFICATION MCSpec
CONSTANTS
  Clients = {c1, c2}
  numberThreads = 2
  Main = main
  NoThread = nothread
  MaxSent = 2
  TextInts = 2
  MaxMounts = 3
  MaxCalls = 4
INVARIANTS CleanShutdown HarmedByTheDead InStep
PROPERTIES Answered ShutdownEnds CallReturns
CHECK_DEADLOCK FALSE
