\* two accepted passwords, one of them weak, a refused one and the empty text,
\* three submissions;
\* a page that signs and one that registers on every platform, two repeated
\* answers and one fault; four services to be told
SPECIFICATION BrowserSpec
CONSTANTS
  Empty = Empty
  weak = weak
  good = good
  better = better
  Passwords <- MCPasswords
  Accepted <- MCAccepted
  Suggested <- MCSuggested
  MaxSent = 3
  signPage = signPage
  registerPage = registerPage
  Calls <- MCCalls
  Kind <- MCKind
  Platforms <- AllPlatforms
  RegisteredKeys = FALSE
  MaxRepeats = 2
  MaxFaults = 1
  Count = 4
INVARIANTS
  PagesTypeOK
  OneAtATime
  OnlyAcceptedSent
  QueryKept
  LoginUsable
  Explained
  SubmitsOwnAnswerOnce
  IconTellsOutcome
PROPERTIES
  SignPageGetsOn
  AllNotified
\* the page of the U2F login makes one call
CHECK_DEADLOCK FALSE
