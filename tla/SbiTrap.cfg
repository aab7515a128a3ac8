CONSTANTS
  Half = 4
  TimeMax = 9
  Deadlines = {0, 3, 5, 8, 15}
  Deltas = {0, 13}
  NoTime = none
  NumHw = 4
  FwCtrMax = 3
  Codes = 8
  FwMax = 6
  EventMax = 6
  Offered <- MCOffered
  Unknown <- MCUnknown
  Features <- MCFeatures
  Requests <- MCRequests
  HwEvents <- MCHwEvents
  IdxMod = 256
  FwEvents <- MCFwEvents
  Intruded = {1}
  CountMod = 3
  None = none
  Setups <- MCSetups
SPECIFICATION FairSpec
INVARIANT TypeOK TimerOnTime 
PROPERTY TimerFires RedirectRoundTrip
