SPECIFICATION Spec
CONSTANTS
  w1 = w1
  w2 = w2
  c1 = c1
  c2 = c2
  a = a
  b = b
  d = d
  Workers <- MCTwoWorkers
  Clients <- MCTwoClients
  Tasks <- MCTwoTasks
  Needs <- MCPair
  TaskForce = "work"
  ClientForce <- MCAnyForce
  Forced <- MCTwoTasks
  Stoppers <- MCOneClient
INVARIANTS
  PoolInv
