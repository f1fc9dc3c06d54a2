SPECIFICATION Spec
CONSTANTS
  Threads = {1, 2}
  MaxCalls = 3
  MaxLevel = 2
  HeadNode = HeadNode
  TailNode = TailNode
  Null = Null
INVARIANTS
  Linearizable
  ContentsExplained
  Ordered
  LevelsNested
  NoCopies
  SizeCounts
