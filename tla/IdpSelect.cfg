SPECIFICATION Spec
CONSTANTS
  p1 = p1
  p2 = p2
  i1 = i1
  i2 = i2
  i3 = i3
  Pages <- MCPages
  Providers <- MCProviders
  Unknown = Unknown
  Feeds <- MCFeeds
  Hidden = {}
  Preferred <- NoPreferred
  MaxPreferred = 2
  Cap = 2
  AutoFollow = TRUE
  NoWriteCookie = FALSE
SYMMETRY Symmetry
PROPERTIES
  ImplementsHistory
  OffersTheHistory
