SPECIFICATION FairSpec
CONSTANTS
  Threads = {1, 2}
  MaxCalls = 4
  Dummy = Dummy
  Dummy1 = Dummy1
  Null = Null
INVARIANTS
  Linearizable
  ContentsExplained
  TailAfterHead
PROPERTIES
  CallsReturn
