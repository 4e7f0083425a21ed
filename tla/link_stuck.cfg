CONSTANTS
  Subscriptions <- MCSubscriptions
  PayloadTopics <- MCPayloadTopics
  IgnoreErrorFirstConnect = TRUE
  SubscribeMayFail = TRUE
  CounterModulus = 3
SPECIFICATION FairSpec
PROPERTY UnconnectedIsRetried
