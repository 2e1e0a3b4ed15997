SPECIFICATION FairSpec
CONSTANTS
  Endless = 99
  MaxSaid = 4
CHECK_DEADLOCK FALSE
INVARIANTS WholeSent WokenRightly GoneIsQuiet
PROPERTIES Serves
