\* Up to three threads with up to three items each, and ints of 6 bits, so that
\* the bench of the hash tables overflows with six items.
SPECIFICATION Spec
CONSTANTS
  MAX_THREADS = 3
  MAX_ITEMS = 3
  IntWidth = 6
INVARIANTS
  NobodyStartsEarly
  NoUseAfterFree
  EachItemOnce
  RightVerdict
PROPERTIES
  Ends
