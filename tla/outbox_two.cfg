SPECIFICATION Spec
CONSTANTS
  Consumer = consumer
  NoKey = NoKey
  Labels = {l1, l2}
  Outboxes = {w1, w2}
  Limit = 1
  MaxFaults = 1
  MaxRestarts = 0
  MaxScripts = 1
CHECK_DEADLOCK FALSE
SYMMETRY Symmetry
INVARIANT EmittedIsLive
PROPERTY DeliversLabels
