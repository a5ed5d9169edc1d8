\* Two agents that ask each other, and channels that open, close and lose a task.
SPECIFICATION Spec
SYMMETRY ChannelsOfB
CONSTANTS
  a1 = a1
  a2 = a2
  r1 = r1
  r2 = r2
  c1 = c1
  c2 = c2
  c3 = c3
  None = None
  MaxEvents = 3
  Agents <- TwoAgents
  Requests <- TwoRequests
  Callbacks <- ThreeCallbacks
  Sender <- ThereAndBack
  Recipient <- BackAndThere
  Owner <- OfBAndA
  PollLimit = 2
  ReplyLimit = 1
INVARIANTS TypeOK OncePerPath ClosedIsSilent NothingLost AnswerWasEarned TimeoutIsHonest
\* Requests end, channels close, and nothing makes a caller begin again.
CHECK_DEADLOCK FALSE
