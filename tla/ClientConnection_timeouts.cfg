CONSTANTS
  MaxRequests = 4
  MaxConnects = 3
  MaxPeerCloses = 1
SPECIFICATION FairSpec
INVARIANTS
  TypeOK
  AnswersOwnRequest
  NoSocketLeak
PROPERTIES
  RequestEnds
CHECK_DEADLOCK FALSE
