CONSTANTS
  ecal2mqtt_topics <- TwoTopics
  NoName = "none"
  MaxVersion = 2
  FreshMemory = {TRUE, FALSE}
SPECIFICATION Spec
INVARIANTS TypeOK HoldersProceed DestroyedQuiet
PROPERTIES IterationUndisturbed ImplementsMirror
