CONSTANTS
  ecal2mqtt_topics <- TypeOnly
  NoName = "none"
  MaxVersion = 2
  FreshMemory = {TRUE}
SPECIFICATION FairSpec
PROPERTY RelaysLatest
