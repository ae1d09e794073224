SPECIFICATION FairSpec
CONSTANTS
  s1 = s1
  s2 = s2
  Hook = Hook
  Scripts <- TwoScripts
  SendMax = 3
INVARIANTS
  NoLostWakeup
  BlockedInPort
  HookAwaited
PROPERTIES
  HookReturns
  CommandAnswered
