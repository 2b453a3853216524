SPECIFICATION FairSpec
CONSTANTS
  Folded <- MCFolded
  Unencodable <- MCUnencodable
  Tracking <- MCTracking
  RULES <- MCRules
  Messages <- MCMessages
  Collections <- MCCollections
  MaxMessages = 3
  MaxFaults = 2
INVARIANTS TypeOK RoutedWholeOrGone RoutedInOrder SpellingHidesNoRule
PROPERTY ComesBack
