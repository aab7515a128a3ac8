SPECIFICATION Spec
CHECK_DEADLOCK FALSE
INVARIANT WakeInv
PROPERTY AnswerKept
CONSTANTS
  Harts = {0, 1, 2}
  Entries = 1
  Space = 8
  Limit = 2
  Asids = {1}
  Vmids = {1}
  Asks <- MCAside
  Ipis <- MCIpis
  NoInfo = none
  MayStop = TRUE
  Debris <- MCDebris
