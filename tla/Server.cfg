\* a transformer that renames a name, leaves nothing of one and keeps one, two
\* browsers, static users, one change of the table; every order of the ten
\* configurations; the flow initialised three times with two fields of its own;
\* three changes of the suffixes
SPECIFICATION ServerSpec
CONSTANTS
  Attempts = {a1, a2}
  Names <- MCThreeNames
  Passwords <- MCPasswords
  Transform <- MCRenaming
  Encoder = "noop"
  HasPolicyStrategy = TRUE
  StockUsers <- MCStock
  AccountTables <- MCThreeTables
  MaxChanges = 1
  CustomFields = {"branch", "token"}
  Required = {"token"}
  Times = 3
  MaxRefresh = 3
INVARIANTS
  ServerTypeOK
  OwnBeansUsed
  HandsOverTheForm
PROPERTIES
  ImplementsVerdict
  SuffixOfLastRefresh
\* both browsers may have logged in
CHECK_DEADLOCK FALSE
