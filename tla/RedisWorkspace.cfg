SPECIFICATION FairSpec
CONSTANTS
  Conns = {local}
  NKeys = 2
  Kinds = {string, hash}
  String = string
  Patterns <- MCPatterns
  ExportLimit = 3
  NoDraft = NoDraft
  NoSession = NoSession
  NoKey = NoKey
  NoDetails = NoDetails
  NoKind = NoKind
  NoExport = NoExport
  Page = Page
  Sidebar = Sidebar
  MaxActs = 4
  MaxSessions = 2
  MaxLoads = 2
  MaxTheirs = 1
INVARIANTS
  TypeOK
  KeysAreOfTheView
  DetailsAreOfTheSelection
  DraftIsOfTheKeyShown
  ExportIsFaithful
PROPERTY EventuallyIdle
CHECK_DEADLOCK FALSE
