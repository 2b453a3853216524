SPECIFICATION OpsSpec
CONSTANTS
  hHtml = hHtml
  hRule = hRule
  p1 = p1
  p2 = p2
  substack = substack
  w1 = w1
  w2 = w2
  medium = medium
  Consumer = consumer
  Resolver = resolver
  NoPlatform = NoPlatform
  NoHost = NoHost
  Hosts = {hHtml}
  Posts = {p1, p2}
  Platforms = {substack}
  Workers = {w1, w2}
  Inbox <- OneHost
  RuleOf <- NoRules
  Scores = {97, 70}
  AutoPromote = 90
  Review = 60
  MaxAttempts = 2
  Threshold = 2
  Batch = 1000
  SlowFetch = FALSE
  MaxTime = 4
  MaxFaults = 1
  MaxSeeds = 0
  MaxDrains = 1
INVARIANT LabelNeedsRed
PROPERTIES NeverReopened 
