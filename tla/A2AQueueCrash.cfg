\* One consumer and one message, and every failure the code can meet.
SPECIFICATION Spec
CONSTANTS
  m1 = m1
  m2 = m2
  w1 = w1
  w2 = w2
  Messages <- OneMessage
  Workers <- OneWorker
  MaxRetries = 1
  Concurrency = 1
INVARIANT Persistent
CHECK_DEADLOCK FALSE
