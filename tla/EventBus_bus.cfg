SPECIFICATION FairSpec
CONSTANTS
  m1 = m1
  m2 = m2
  m3 = m3
  s1 = s1
  s2 = s2
  Messages <- AllMessages
  Subscribers <- AllSubscribers
  TopicOf <- Topics
  MaxStarts = 2
INVARIANT DispatcherIsSafe
PROPERTY QuietAfterStop
PROPERTY ImplementsChannel
PROPERTY BusGoesOn
CHECK_DEADLOCK FALSE
