CONSTANTS
  Harts = {h1, h2, h3}
  Capable = {h1, h2}
  DomainBoot = {h2}
  HsmDev = "secondary"
  MayFail = FALSE
  Tags = {t1}
  BootTag = t0
  NoCall = none
SPECIFICATION Spec
INVARIANT HsmInv DeviceStartsOff PendingHartIsComing
