SPECIFICATION SearchSpec
CONSTANTS
  i1 = i1
  i2 = i2
  i3 = i3
  Idps <- MCIdps
  Texts <- MCTexts
  Empty = ""
  Candidates <- MCCandidates
  NameOf <- MCNameOf
  Dash = Dash
  MaxResults = 2
  AlwaysShow = TRUE
INVARIANT
  AtMostMaxResultsShown
