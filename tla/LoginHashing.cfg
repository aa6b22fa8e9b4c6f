\* the comment of matches, with an encoder that hashes
SPECIFICATION Spec
CONSTANTS
  Attempts = {a1, a2}
  Names <- MCNames
  Passwords <- MCPasswords
  Transform <- MCIdentity
  Encoder = "hashing"
  HasPolicyStrategy = TRUE
  StockUsers <- MCNoStock
  AccountTables <- MCTables
  MaxChanges = 1
INVARIANTS
  RightPasswordMatches
\* both browsers may have logged in
CHECK_DEADLOCK FALSE
