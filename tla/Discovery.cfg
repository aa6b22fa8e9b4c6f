\* three providers and five texts; one page with a history of three of its five
\* providers; ids of up to five characters, whose codes set the bits at the
\* edges of the shifted fields; five browsers, five configurations, up to three
\* names, up to two logos that may be icons; up to three logos of seven sizes; more than two years of visits; feeds of
\* up to four entries, return addresses of up to two parameters
SPECIFICATION DiscoverySpec
CONSTANTS
  i1 = i1
  i2 = i2
  i3 = i3
  i4 = i4
  i5 = i5
  Idps <- MCIdps
  Texts <- MCTexts
  Empty = ""
  Candidates <- MCCandidates
  NameOf <- MCNameOf
  Dash = Dash
  MaxResults = 1
  AlwaysShow = TRUE
  Pages = {page}
  Providers <- MCProviders
  Unknown = Unknown
  Feeds <- MCFeeds
  Hidden = {i5}
  Preferred <- MCPreferred
  MaxPreferred = 3
  Cap = 3
  AutoFollow = TRUE
  NoWriteCookie = FALSE
  Codes = {33, 47, 64, 85, 126}
  MaxLen = 5
  Tags <- MCTags
  OwnBundles <- MCOwnBundles
  Defaults = {"en", "fr"}
  NameLangs = {"en", "de", "pt-br"}
  MaxNames = 3
  MaxIcons = 2
  Langs = {"de", "en", "fr"}
  Sizes <- MCSizes
  MaxLogos = 3
  autoFollowCookieTTLs <- MCTtls
  samlIdPCookieTTL = 730
  Pauses <- MCPauses
  LastDay = 800
  FeedIds = {i1, i2, i3}
  HiddenIds <- MCHiddenIds
  Ranks = {1, 2}
  MaxFeed = 4
  MaxParams = 2
INVARIANTS
  DiscoveryTypeOK
  ButtonMeansHighlighted
  ShownAreSelectable
  ReadsWhatWasWritten
  TextsInBrowsersLanguage
  NameChosen
  BestLogoInTheBox
  EachProviderOnce
  WaysAgreeWhenPortable
PROPERTIES
  EnabledOnlyIfUnique
  KeepsTheOthers
  FollowsOnlyWhenAsked
  NotAskedAgain
