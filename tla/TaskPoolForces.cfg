SPECIFICATION FairSpec
CONSTANTS
  w1 = w1
  w2 = w2
  c1 = c1
  c2 = c2
  a = a
  b = b
  d = d
  Workers <- MCTwoWorkers
  Clients <- MCOneClient
  Tasks <- MCThreeTasks
  Needs <- MCChain
  TaskForce = "yield"
  ClientForce <- MCSpinYield
  Forced <- MCJustD
  Stoppers <- MCNobody
INVARIANT
  FinishDrains
PROPERTIES
  ForceReturns
  TasksFinish
  FinishReturns
