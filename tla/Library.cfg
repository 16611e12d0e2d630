SPECIFICATION LibFairSpec
CONSTANTS
  k1 = k1  k2 = k2  k3 = k3  k4 = k4  k5 = k5
  h1 = h1  h2 = h2  n1 = n1  n2 = n2  n3 = n3  n4 = n4  n5 = n5
  s1 = s1  s2 = s2  s3 = s3  w1 = w1  w2 = w2  u1 = u1  u2 = u2
  Null = Null  NoNode = NoNode
  Tasks <- MCTasks
  Groups <- MCGroups
  Tables <- MCTables
  Nodes <- MCNodes
  KeyOf <- MCKeyOf
  MaxLoad = 1
  FirstCount = 1
  Counts <- MCCounts
  Strong <- MCStrong
  Weak <- MCWeak
  SortKeys <- MCKeys
  MaxLen = 6
  QueueLen = 4
  Threshold = 3
  Depths <- MCDepths
  MaxRun = 6
  Chunk = 2
  FewInplace = 3
  MaxFirst = 4
  MaxSecond = 3
  Senders <- MCSenders
  Script <- MCScript
  Limits <- MCLimits
  Wants <- MCWants
INVARIANTS
  ListIsQueue
  BoxInv
  TableInv
  CountersInv
  SortInv
  StableInv
  SearchInv
PROPERTIES
  NoLeak
  SenderGetsRoom
CHECK_DEADLOCK FALSE
