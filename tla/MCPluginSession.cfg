SPECIFICATION FairSpec
CONSTANTS
  Calls = {k1, k2, k3}
  NoClient = NoClient
  GiveUp = 1
  MaxFaults = 2
  MaxSlow = 1
  MaxClicks = 1
INVARIANTS
  TypeOK
  NeverStranded
  QuietUnloadIsFinal
  OneLiveClient
PROPERTY ComesBack
CHECK_DEADLOCK FALSE
