SPECIFICATION FairSpec
CONSTANTS
  Capacity = 12
  Answers <- SomeAnswers
INVARIANTS
  TextIsTheAnswers
  OneReply
  ExchangeContained
PROPERTIES
  ExchangeEnds
