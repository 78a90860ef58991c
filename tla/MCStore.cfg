SPECIFICATION Spec
CONSTANTS
  Customer = {c1}
  Key = {k1}
  Plan = {gold}
  MaxEvents = 2
  None = None
  QKey = {q1, q2}
  Request = {x1, x2}
  Plans <- MCPlans
  Estimates = {1}
  Slack = 0
  MaxConcurrent = 2
  FiveHours = 1
  Week = 2
  MaxTime = 2
  ThresholdHalf = 2
  Nobody = Nobody
  Writer = {w1, w2}
  MaxAudit = 4
  TrimEvery = 3
  MaxRows = 2
  MaxInserts = 10
  Idle = Idle
  Versions = {1, 2, 3}
  Runner = {p1, p2}
  MaxWrites = 2
  Nil = Nil
  Subscriber = {s1, s2}
  HistorySize = 2
  QueueSize = 2
  MaxPublished = 4
  Served = {x1, x2}
  Route = {k}
  Sampler = {loop, rest}
  OnLoop = {loop}
  Ends <- MCEnds
  Minute = 1
  LastTick = 2
  MaxSamples = 2
  Client = {n1, n2}
  MaxRecent = 3
  Warm = {b1}
  Main = {x1, x2}
  Burst = {b2}
  Concurrency = 2
  BurstConcurrency = 2
SYMMETRY Symmetry
INVARIANTS
  
  
  JournalsAreKept
  SchemaIsTracked
  RestoreIsAllOrNothing
  FeedIsSound
  MetricsAreTrue
  
  ReportIsMeasured
CHECK_DEADLOCK FALSE
