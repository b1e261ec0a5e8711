SPECIFICATION Spec
CONSTANTS
  MaxCommands <- MCMaxCommands
  StatusBytes <- MCStatusBytes
INVARIANTS
  TypeOK
  OneThreadTalks
  AnswersInOrder
PROPERTIES
  AnsweredUnlessEarly
  EndsTogether
