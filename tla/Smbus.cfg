SPECIFICATION Spec
CONSTANTS
  Instances = {0, 1}
  Controllers = {0}
  PecTargets = {1}
  None = none
  RemoteProtos = {"blockWrite", "blockCall"}
  OwnProtos = {"blockWrite", "blockCall"}
  OwnPecs = {TRUE, FALSE}
  Sizes = {6}
  Width = 1
  ReplySize = 1
  Depth = 5
  Half = 3
  Trigger = 2
  Low = 1
  MaxEmpties = 10
  MaxWork = 2
  MaxFaults = 1
INVARIANTS TypeOK DeliveredWhole AnsweredOnce
CHECK_DEADLOCK FALSE
PROPERTY InPlayEnds
