CONSTANTS
  Subscriptions <- MCSubscriptions
  PayloadTopics <- MCPayloadTopics
  IgnoreErrorFirstConnect = TRUE
  SubscribeMayFail = TRUE
  CounterModulus = 3
SPECIFICATION Spec
INVARIANTS TypeOK SupervisedHasLoop SubscribedMeansConnected
PROPERTIES FlagRaisedSubscribed ImplementsSession
