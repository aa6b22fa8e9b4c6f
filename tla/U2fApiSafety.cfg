\* every platform, a sign, a register and a version call, one repeated answer
\* and one fault
SPECIFICATION Spec
CONSTANTS
  s1 = s1
  r1 = r1
  v1 = v1
  Calls <- MCCalls
  Kind <- MCKind
  Platforms <- AllPlatforms
  RegisteredKeys = TRUE
  MaxRepeats = 1
  MaxFaults = 1
INVARIANTS
  TypeOK
  OnePlacePerCall
  OwnAnswerOnce
  ModernOnlyIfSupported
  VersionBeforeRequest
  NoStrandedWaiter
PROPERTIES
  AcquireOnce
  ImplementsCalls
\* the page may have made all its calls
CHECK_DEADLOCK FALSE
