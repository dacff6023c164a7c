SPECIFICATION Spec
CONSTANTS
  m1 = m1
  Messages = {m1}
  Items <- MCItems
  MaxDeliver <- MCMaxDeliver
  MaxAttempts = 2
  Calls <- MCCalls
INVARIANT PrefixPublished
INVARIANT CopiesBounded
PROPERTY ForwardsAtLeastOnce
PROPERTY RunsEnd
CHECK_DEADLOCK FALSE
