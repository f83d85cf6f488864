SPECIFICATION FairSpec
CONSTANTS
  c1 = c1
  c2 = c2
  d1 = d1
  d2 = d2
  NoReply = NoReply
  Refused = Refused
  Clients <- MCClients
  Docs <- MCDocs
  SeedLimit = 2
CHECK_DEADLOCK FALSE
INVARIANTS TypeOK ServedWhole
PROPERTIES ReceivedIsAnswered ShutdownEnds
