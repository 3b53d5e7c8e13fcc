SPECIFICATION FairSpec
CONSTANTS
  NumSlots = 2
  Wrap = 4
  Words = 2
  m1 = m1
  m2 = m2
  Msgs <- TwoMsgs
  NoMsg = NoMsg
  AmcProduces = TRUE
  PeerTails <- EdgeTails
  MemoryRetained = FALSE
INVARIANTS TypeOK NoSlotRace NoTornMessage MagicConfirmsHeader
PROPERTIES ImplementsFifo PublishedIsConsumed
