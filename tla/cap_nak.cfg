SPECIFICATION FairSpec
CONSTANTS
  Replies <- Refuses
  Listings <- Listed
PROPERTIES
  NegotiationEnds
