SPECIFICATION FairSpec
CONSTANTS
  s1 = s1
  s2 = s2
  NoStream = NoStream
  Subscribers <- MCSubscribers
  Slots = 2
  MaxEvents = 5
INVARIANTS TypeOK InOrderSinceJoined GapsOnlyByOverrun
PROPERTY EventsReachSubscribers
