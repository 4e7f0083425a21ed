CONSTANTS
  ecal2mqtt_topics <- OneTopic
  NoName = "none"
  MaxVersion = 2
  FreshMemory = {TRUE}
SPECIFICATION FairSpec
PROPERTIES DestructorReturns RelaysLatest
