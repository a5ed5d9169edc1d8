\* Two consumers that may start, take each other's members, fail and stop.
SPECIFICATION FairSpec
CONSTANTS
  m1 = m1
  m2 = m2
  w1 = w1
  w2 = w2
  Messages <- OneMessage
  Workers <- TwoWorkers
  MaxRetries = 2
  Concurrency = 2
INVARIANTS TypeOK NothingLost NotGivenUpEarly AttemptBound
PROPERTY Settles
\* Consumers stop, and nothing makes a producer enqueue another message.
CHECK_DEADLOCK FALSE
