SPECIFICATION FairServerSpec
CONSTANTS
  c1 = c1
  c2 = c2
  n1 = n1
  n2 = n2
  NULL = NULL
  MAIN = MAIN
  MaxCallers = 2
  Unknown <- MCUnknown
  Silent <- MCSilent
  Interrupted <- MCInterrupted
  Threads <- MCThreads
  Nodes <- MCNodes
  Families <- MCFamilies
  Backlog <- MCBacklog
  MaxCommands <- MCMaxCommands
INVARIANTS
  ServerTypeOK
  ShutdownAnswers
PROPERTIES
  CommandAnswered
  Stops
