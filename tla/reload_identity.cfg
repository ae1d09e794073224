SPECIFICATION Spec
CONSTANTS
  f1 = f1
  f2 = f2
  n1 = n1
  n2 = n2
  NoSock = NoSock
  Fds <- TwoFds
  MaxBackoff = 6
  Clients <- AllClients
  Nicks <- TwoNicks
INVARIANTS
  ReplyIdentity
