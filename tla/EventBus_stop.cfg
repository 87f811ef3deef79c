SPECIFICATION FairSpec
CONSTANTS
  m1 = m1
  m2 = m2
  m3 = m3
  s1 = s1
  s2 = s2
  Messages <- TwoMessages
  Subscribers <- OneSubscriber
  TopicOf <- OneTopic
  MaxStarts = 2
PROPERTY StopReturns
CHECK_DEADLOCK FALSE
