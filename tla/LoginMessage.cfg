\* the comment of queryByUserName on what the login page shows
SPECIFICATION Spec
CONSTANTS
  Attempts = {a1, a2}
  Names <- MCNames
  Passwords <- MCPasswords
  Transform <- MCIdentity
  Encoder = "noop"
  HasPolicyStrategy = TRUE
  StockUsers <- MCStock
  AccountTables <- MCTables
  MaxChanges = 1
INVARIANTS
  PageNamesException
\* both browsers may have logged in
CHECK_DEADLOCK FALSE
