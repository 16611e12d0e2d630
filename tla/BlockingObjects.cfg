SPECIFICATION AnyFairSpec
CONSTANTS
  t1 = t1  t2 = t2  t3 = t3  t4 = t4  x = x  y = y  z = z
  Threads <- MCThree
  Users <- MCUsers
  Storers <- MCStorers
  Timed <- MCTimed
  Objects <- MCObjects
  Direct <- MCDirect
  Sole <- MCSole
  Values <- MCValues
  MaxVersion = 1
  Acquirers <- MCWaiters
  Patient <- MCTimed
  Releasers <- MCStorers
  Updates <- MCUpdates
  SemMax = 3
  Loaders <- MCWaiters
  Limited <- MCTimed
  Publishers <- MCPublishers
  Numbers <- MCValues
INVARIANTS
  SignaledAwake
  WaitersMissNothing
  TokensConserved
  SleeperCovered
PROPERTIES
  SignaledLeaves
  ChangeEndsWait
  ReleaseWakes
  SatisfiedReturns
