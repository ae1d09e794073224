SPECIFICATION FairSpec
CONSTANTS
  f1 = f1
  f2 = f2
  f3 = f3
  NoSock = NoSock
  Fds <- TwoFds
  MaxNets = 2
  MaxWait = 1
  Clients <- AllClients
  WaitMayFail = TRUE
PROPERTIES
  QuitEnds
  BreakTaken
  DisconnectCloses
  RetryHappens
  ReadySetServed
