SPECIFICATION FairSpec
CONSTANTS
  w1 = w1  w2 = w2  q1 = q1  q2 = q2  c1 = c1
  NONE = NONE  OK = OK  ERROR = ERROR
  Workers = {w1, w2}
  Queues = {q1, q2}
  Clients = {c1}
  Contexts = {}
  Prios = {1, 2}
  Queries <- MixedQueries
  Sends <- MixedSends
  Deletions = {q1}
  DayLength = 24
  MaxMessages = 2
  MaxFailures = 1
INVARIANTS TypeOK DeleteCountIsOne LossNeedsFailure NoOvertaking GivesUpOnlyWhenGone
PROPERTIES EveryRequestIsAnswered DeliversFreshMatch ContractSpec
