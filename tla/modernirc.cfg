SPECIFICATION FairSpec
CONSTANTS
  Replies <- Grants
  Listings <- Listed
INVARIANTS
  EndIsLast
  CredentialAskedFor
  NeverUnauthenticated

  
