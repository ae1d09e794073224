SPECIFICATION Spec
CONSTANTS
  Text <- SomeText
  Numerals <- Numeral
  Lines <- SomeLines
  CommandLines <- Started
  ChannelsMax = 1
  NetworksMax = 2
  LinesMax = 4
INVARIANTS
  LoadMeansFile
  StaleOnlyIfDropped
  SectionsAccounted
