CONSTANTS
  N = 3
  Relaying <- MCRelaying
  Describing <- MCDescribing
SPECIFICATION FairSpec
INVARIANTS TypeOK CallbacksHaveBridge PublishersOutliveUse LibraryHeld EcalHeld
PROPERTIES WaitsOnlyShrink ShutdownEnds
