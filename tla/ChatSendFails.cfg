SPECIFICATION SendSpec
CONSTANTS
  plain = plain
  skill = skill
  Senders <- MCSenders
  Skills <- MCSkills
  Words <- MCWords
  MaxMessages = 3
PROPERTY BrokenCallHandsOff
CHECK_DEADLOCK FALSE
