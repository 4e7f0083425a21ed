CONSTANTS
  Subscriptions <- MCSubscriptions
  PayloadTopics <- MCPayloadTopics
  IgnoreErrorFirstConnect = TRUE
  SubscribeMayFail = FALSE
  CounterModulus = 3
SPECIFICATION FairSpec
INVARIANTS ConnectedMeansSubscribed GreetedMeansHealthy
PROPERTY Recovers
