SPECIFICATION Spec
CONSTANTS
  Parts = {p0, p1}
  P0 = p0
  Images = {new}
  OneChunk = {}
  OldImage = old
  Fpt = fpt
  FewFpt = fewfpt
  BadFpt = badfpt
  NoImage = noimage
  NoPart = nopart
  Chunks = 2
  Pages = 3
  Sampled = {0}
  MboxSize = 2
  MayAbandon = {"copy"}
  MaxCalls = 2
  MaxFaults = 0
INVARIANTS BootTagLast
CHECK_DEADLOCK FALSE
