CONSTANTS
  mqtt2ecal_topics <- MCMqtt2Ecal
  NoName = "none"
  Messages <- MCMessages
  NoPayload = "nothing"
  Retained <- MCRetained
  Repeated <- MCRepeated
  hasher <- MChasher
  NoHash <- MCNoHash
  MaxInFlight = 1
SPECIFICATION FairSpec
INVARIANTS TypeOK OwnContent CacheHonest
PROPERTIES HandledShown CatchesUp EarlyMessagesShown
