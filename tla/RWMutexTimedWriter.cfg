SPECIFICATION LockSpec
CONSTANTS
  t1 = t1  t2 = t2  t3 = t3  t4 = t4  n1 = n1  n2 = n2
  Main = t1
  Spawned <- MCSpawned
  Names <- MCNames
  TidInit = TidInit
  MaxListed = 2
  Settings <- MCOneName
  Threads <- MCThree
  TimedReaders <- MCNobody
  TimedWriters <- MCAllTimed
INVARIANT
  QueuedReadersAlerted
