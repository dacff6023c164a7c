SPECIFICATION Spec
CONSTANTS
  id1 = id1
  id2 = id2
  v1 = v1
  v2 = v2
  Hops = {"channel", "nats", "jetstream", "http", "nats request", "http request"}
  Keys = {"X-Tenant-ID", "X-Tenant-Id", "X-Message-ID", "X-Message-Id"}
  Canon <- MCCanon
  IDKey = "X-Message-ID"
  Values = {v1, v2, id1, id2}
  Senders <- MCSenders
  SubscribeCtx <- MCSubscribeCtx
  Chains <- MCChains
  None = None
  MaxHops = 3
INVARIANT HeaderSurvives
INVARIANT IdSurvives
INVARIANT TraceSurvives
CHECK_DEADLOCK FALSE
