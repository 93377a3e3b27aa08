SPECIFICATION FairSpec
CONSTANTS
  MaxPosts = 2
  MaxCuts = 2
  Connections <- MCConnections
INVARIANTS
  TypeOK
  MessagesWhole
  HandedOnce
  AnswersAsPosted
  DiesOnlyIf
PROPERTIES
  Answered
CHECK_DEADLOCK FALSE
