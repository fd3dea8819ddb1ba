SPECIFICATION Spec
CONSTANTS
  IntBits = 4
  MaxInt = 7
  Statements <- MCStatements
  Text <- StatementText
  Tails <- MCTails
  BadTexts <- MCBadTexts
  MaxRows = 2
INVARIANTS
  TypeOK
  ParsesBack
  SelectIsRight
  GroupsAreRight
  ExplainDrawsPlan
