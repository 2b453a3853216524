SPECIFICATION FairSpec
CONSTANTS
  Consumer = consumer
  NoKey = NoKey
  Labels = {l1, l2}
  Outboxes = {w1}
  Limit = 2
  MaxFaults = 2
  MaxRestarts = 1
  MaxScripts = 2
CHECK_DEADLOCK FALSE
INVARIANTS TypeOK EmittedIsLive NegationFollowsLabel RetractedIsGone  AppliedOnce
PROPERTIES OutcomeIsFinal PendingIsSettled
