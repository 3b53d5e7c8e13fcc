SPECIFICATION FairSpec
CONSTANTS
  hb = hb
  u1 = u1
  u2 = u2
  Threads <- Users
  Kind <- LogKind
  Signalled <- Users
  Rejected <- OneUser
  Expirable <- Users
  MayStop = FALSE
  MaxCid = 0
  SqSlots = 1
  MaxCalls <- Twice
  NoThread = NoThread
  NoCall = NoCall
INVARIANTS TypeOK NoUseAfterFree NothingLeaks
PROPERTY EveryCallReturns
