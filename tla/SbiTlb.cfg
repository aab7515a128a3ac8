CONSTANTS
  Harts = {0, 1, 2}
  Entries = 1
  Space = 8
  Limit = 2
  Asids = {1, 2}
  Vmids = {1, 2}
  Asks <- MCKinds
  Ipis <- MCQuiet
  NoInfo = none
  MayStop = FALSE
  Debris <- MCDebris
SPECIFICATION Spec
INVARIANT FlushedWhenDone OneAck
