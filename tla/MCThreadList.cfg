SPECIFICATION Spec
CONSTANTS
  t1 = t1
  t2 = t2
  t3 = t3
  n1 = n1
  n2 = n2
  n3 = n3
  NULL = NULL
  MAIN = MAIN
  MaxCallers = 2
  Threads <- MCThreads
  Nodes <- MCNodes
INVARIANTS
  TypeOK
  ListSound
  EndThreadsJoinsListed
PROPERTY
  Implements
SYMMETRY Symmetry
