SPECIFICATION ProcessSpec
CONSTANTS
  Folded <- MCFolded
  Unencodable <- MCUnencodable
  Tracking <- MCTracking
  RULES <- MCRules
  Messages <- WellFormed
  Collections <- MCCollections
  MaxMessages = 1
  MaxFaults = 0
PROPERTY ComesBack
