SPECIFICATION FairSpec
CONSTANTS
  p1 = p1
  p2 = p2
  p3 = p3
  s1 = s1
  s2 = s2
  s3 = s3
  t = t
  Dead = Dead
  Unresolved = Unresolved
  NoUrl = NoUrl
  NoItem = NoItem
  Consumer = consumer
  Posts = {p1, p2, p3}
  Shorts = {s1, s2, s3}
  Targets = {t}
  Resolvers = {r1, r2}
  Links <- EachLink
  Leads <- Chained
  MaxHops = 1
  SlowResolve = TRUE
  MaxFaults = 1
CHECK_DEADLOCK FALSE
INVARIANTS TypeOK UnresolvedIsQueued NothingVanishes RoutedWhereItLeads
 
