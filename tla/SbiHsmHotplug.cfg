CONSTANTS
  Harts = {h1, h2, h3}
  Capable = {h1, h2, h3}
  DomainBoot = {h2}
  HsmDev = "hotplug"
  MayFail = TRUE
  Tags = {t1, t2}
  BootTag = t0
  NoCall = none
SPECIFICATION Spec
INVARIANT StartInv
PROPERTY EntersAsAsked
CHECK_DEADLOCK FALSE
