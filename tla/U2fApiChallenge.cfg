\* the type of SignRequest against the register request in the 1.0 form, which
\* follows a version request that was answered with an error or below 1.1
SPECIFICATION Spec
CONSTANTS
  s1 = s1
  r1 = r1
  v1 = v1
  Calls <- MCTwoCalls
  Kind <- MCTwoKinds
  Platforms <- AllPlatforms
  RegisteredKeys = TRUE
  MaxRepeats = 0
  MaxFaults = 0
INVARIANTS
  SignRequestChallengeIsString
\* the page may have made all its calls
CHECK_DEADLOCK FALSE
