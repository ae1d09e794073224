SPECIFICATION Spec
CONSTANTS
  LineMax = 2
  Capacity = 2
  RecvMax = 6
  StreamMax = 7
INVARIANTS
  TypeOK
  FramesAgree
  EventsInOrder
  LossOnlyInBursts
