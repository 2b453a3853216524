SPECIFICATION FairSpec
CONSTANTS
  NoMark = NoMark
  Rows = {r1, r2}
  MaxClock = 3
  MaxFaults = 2
  MaxRevokes = 2
INVARIANTS TypeOK CountedTwiceOnlyIfUnsaved MissedOnlyIfLateOrOnBookmark RefusedTwiceOnlyIfRevokedAgain
PROPERTIES PushKeepsCounts EmittedIsCharted
