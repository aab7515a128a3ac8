CONSTANTS
  Harts = {h1, h2}
  Capable = {h1, h2}
  DomainBoot = {h2}
  HsmDev = "none"
  MayFail = FALSE
  Tags = {t1, t2}
  BootTag = t0
  NoCall = none
SPECIFICATION Spec
PROPERTY EntersAsAsked
