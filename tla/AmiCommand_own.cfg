SPECIFICATION Spec
CONSTANTS
  hb = hb
  u1 = u1
  u2 = u2
  Threads <- ThreeThreads
  Kind <- DataKind
  Signalled <- Nobody
  Rejected <- Nobody
  Expirable <- OnlyHb
  MayStop = TRUE
  MaxCid = 3
  SqSlots = 2
  MaxCalls <- HbTwice
  NoThread = NoThread
  NoCall = NoCall
INVARIANTS OwnResponse PageIsOwn
