SPECIFICATION Spec
CONSTANTS
  f1 = f1
  f2 = f2
  f3 = f3
  NoSock = NoSock
  Fds <- ThreeFds
  MaxNets = 2
  MaxWait = 3
  Clients <- AllClients
  WaitMayFail = FALSE
INVARIANTS
  TearsDown
