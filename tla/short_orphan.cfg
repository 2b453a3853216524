SPECIFICATION FairSpec
CONSTANTS
  p1 = p1
  p2 = p2
  p3 = p3
  s1 = s1
  s2 = s2
  s3 = s3
  t = t
  Dead = Dead
  Unresolved = Unresolved
  NoUrl = NoUrl
  NoItem = NoItem
  Consumer = consumer
  Posts = {p1, p2, p3}
  Shorts = {s1, s2, s3}
  Targets = {t}
  Resolvers = {r1}
  Links <- SameLink
  Leads <- Chained
  MaxHops = 2
  SlowResolve = FALSE
  MaxFaults = 0
CHECK_DEADLOCK FALSE
PROPERTIES BufferedIsDispatched
