\* platforms that listen for answers, an extension that stays, one repeat
SPECIFICATION FairSpec
CONSTANTS
  s1 = s1
  r1 = r1
  v1 = v1
  Calls <- MCTwoCalls
  Kind <- MCTwoKinds
  Platforms <- MCListening
  RegisteredKeys = FALSE
  MaxRepeats = 1
  MaxFaults = 0
PROPERTIES
  EveryCallAnswered
\* the page may have made all its calls
CHECK_DEADLOCK FALSE
