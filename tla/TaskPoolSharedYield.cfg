SPECIFICATION FairSpec
CONSTANTS
  w1 = w1
  w2 = w2
  c1 = c1
  c2 = c2
  a = a
  b = b
  d = d
  Workers <- MCOneWorker
  Clients <- MCTwoClients
  Tasks <- MCOneTask
  Needs <- MCNoNeeds
  TaskForce = "yield"
  ClientForce <- MCYield
  Forced <- MCOneTask
  Stoppers <- MCNobody
PROPERTY
  ForceReturns
