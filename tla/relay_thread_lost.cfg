CONSTANTS
  ecal2mqtt_topics <- OneTopic
  NoName = "none"
  MaxVersion = 2
  FreshMemory = {TRUE, FALSE}
SPECIFICATION FairSpec
PROPERTY RelaysLatest
