SPECIFICATION Spec
CONSTANTS
  hb = hb
  u1 = u1
  u2 = u2
  Threads <- ThreeThreads
  Kind <- LogKind
  Signalled <- Users
  Rejected <- Nobody
  Expirable <- Nobody
  MayStop = FALSE
  MaxCid = 1
  SqSlots = 2
  MaxCalls <- UserTwice
  NoThread = NoThread
  NoCall = NoCall
INVARIANT CidUnique
