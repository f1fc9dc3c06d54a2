SPECIFICATION FairSpec
CONSTANTS
  Threads = {1, 2}
  MaxCalls = 3
  Keys = {1, 2}
  HeadNode = HeadNode
  TailNode = TailNode
  Null = Null
INVARIANTS Linearizable ContentsExplained Ordered
PROPERTIES CallsReturn
