SPECIFICATION FairSpec
CONSTANTS
  MaxTexts = 3
  Modes = {"strict", "augmented"}
CHECK_DEADLOCK FALSE
INVARIANTS ToldWhereFrom
PROPERTIES ImplementsAnswerStream StreamEnds
