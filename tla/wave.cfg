CONSTANTS
  a = a
  b = b
  Rep = {a, b}
  SpeechLimit = 1
  ActionLimit = 3
  MaxNews = 5
SPECIFICATION FairSpec
INVARIANTS
  TypeOK
  OneSpeechPerWave
PROPERTIES
  DiscussionRests
CHECK_DEADLOCK FALSE
