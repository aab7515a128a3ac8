CONSTANTS
  Harts = {h1, h2, h3}
  Capable = {h1, h2}
  DomainBoot = {h1, h3}
  HsmDev = "none"
  MayFail = FALSE
  Tags = {t1}
  BootTag = t0
  NoCall = none
SPECIFICATION FairSpec
INVARIANT NoInvalidState ColdWakeNotLost StartNotLost
PROPERTY Started ColdWaitEnds
