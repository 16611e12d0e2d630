SPECIFICATION GateFairSpec
CONSTANTS
  t1 = t1  t2 = t2  t3 = t3  t4 = t4  t5 = t5
  Threads <- MCFive
  m_limit = 3
  GroupNumbers = 3
  None = None
  GoneLimit = 3
  Callers <- MCThree
  Uses <- MCRace
PROPERTY
  TimedWaitReturns
