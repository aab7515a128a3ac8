CONSTANTS
  Harts = {0, 1, 2}
  Entries = 2
  Space = 8
  Limit = 2
  Asids = {1}
  Vmids = {1}
  Asks <- MCTriple
  Ipis <- MCQuiet
  NoInfo = none
  MayStop = FALSE
  Debris <- MCDebris
SPECIFICATION FairSpec
INVARIANT EventNotLost
PROPERTY RequestCompletes
