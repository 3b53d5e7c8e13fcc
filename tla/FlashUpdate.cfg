SPECIFICATION Spec
CONSTANTS
  Parts = {p0, p1}
  P0 = p0
  Images = {new, small}
  OneChunk = {small}
  OldImage = old
  Fpt = fpt
  FewFpt = fewfpt
  BadFpt = badfpt
  NoImage = noimage
  NoPart = nopart
  Chunks = 2
  Pages = 3
  Sampled = {0}
  MboxSize = 2
  MayAbandon = {"pdi", "fpt"}
  MaxCalls = 3
  MaxFaults = 1
INVARIANTS TypeOK BootTagLast SuccessIsWhole JobsUseLoadedTable
PROPERTIES UndisturbedSucceeds
CHECK_DEADLOCK FALSE
