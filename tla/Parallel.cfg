SPECIFICATION ParallelSpec
CONSTANTS
  w1 = w1  w2 = w2  c1 = c1
  LoopWorkers <- MCLoopWorkers
  Caller = c1
  Loops <- MCLoops
  IndexSize = 16
  ParKeys <- MCParKeys
  ParLens <- MCParLens
  Partials <- MCPartials
  SortCutOff = 2
  MergeCutOff = 3
  SortKeys <- MCKeys
  FindLen = 4
  SoughtLen = 3
  MaxBlocks = 3
  ReduceLen = 6
  NthLen = 5
  RotateLen = 9
  Workers <- MCWorkers
  MaxScan1 = 5
  MaxScan2 = 4
  SetCutOff = 3
INVARIANTS
  TasksInv
  ElementsInv
  FindInv
  ReduceInv
  ScanInv
  ForeachInv
CHECK_DEADLOCK FALSE
