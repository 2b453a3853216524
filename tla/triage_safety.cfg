SPECIFICATION Spec
CONSTANTS
  hHtml = hHtml
  hRule = hRule
  p1 = p1
  p2 = p2
  substack = substack
  w1 = w1
  w2 = w2
  medium = medium
  Consumer = consumer
  Resolver = resolver
  NoPlatform = NoPlatform
  NoHost = NoHost
  Hosts = {hHtml, hRule}
  Posts = {p1, p2}
  Platforms = {substack}
  Workers = {w1, w2}
  Inbox <- TwoLinks
  RuleOf <- MCRuleOf
  Scores = {97, 70}
  AutoPromote = 90
  Review = 60
  MaxAttempts = 2
  Threshold = 2
  Batch = 1000
  SlowFetch = FALSE
  MaxTime = 4
  MaxFaults = 1
  MaxSeeds = 1
  MaxDrains = 0
SYMMETRY Loops
INVARIANTS TypeOK PendingIsQueued LabelNeedsRed OneFetcherPerHost 
PROPERTIES DropNeedsDecision NeverReopened
