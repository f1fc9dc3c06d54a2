SPECIFICATION FairSpec
CONSTANTS
  Threads = {1, 2}
  MaxCalls = 2
  Dummy = Dummy
  Dummy1 = Dummy1
  Null = Null
PROPERTIES
  LockFree
