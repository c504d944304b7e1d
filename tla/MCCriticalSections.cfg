CONSTANTS
  Loops = 3
  Ten = 2
  Suites = {"sections", "queue", "sums", "forks", "buffer"}
  QueueLen = 4
  SumLen = 7
  SumThreads = 3
  c1 = c1
  c2 = c2
  c3 = c3
  Consumers <- MCConsumers
  BufferedLen = 5
  BUFFER_SIZE = 2
SPECIFICATION MCSpec
INVARIANTS
  LinesPrinted
  SectionsKept
  UnlockedCounts
  QueueInOrder
  EachAddedOnce
  SlotsIntact
  AddsInOrder
  ReportsSum
  QuietAfterAll
PROPERTIES
  SectionsEnd
  QueueDrained
  LevelThreeEnds
CHECK_DEADLOCK FALSE
