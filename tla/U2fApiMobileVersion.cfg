\* the comment on getApiVersion against the code, on mobile platforms
SPECIFICATION Spec
CONSTANTS
  s1 = s1
  r1 = r1
  v1 = v1
  Calls <- MCCalls
  Kind <- MCKind
  Platforms <- MCMobile
  RegisteredKeys = FALSE
  MaxRepeats = 0
  MaxFaults = 0
INVARIANTS
  MobileVersionIsZero
\* the page may have made all its calls
CHECK_DEADLOCK FALSE
