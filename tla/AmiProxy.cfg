SPECIFICATION FairSpec
CONSTANTS
  q1 = q1
  i1 = i1
  a1 = a1
  a2 = a2
  Requests <- FourRequests
  Kind <- Kinds
  NumSlots = 2
  MboxSize = 2
  ApcMboxSize = 1
  SqSize = 2
  CqSize = 1
  NoRequest = NoRequest
  HotReset = HotReset
INVARIANTS TypeOK SlotsAccounted
PROPERTIES ImplementsServer DroppedOnlyWhenFlooded AllSettled
