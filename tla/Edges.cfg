SPECIFICATION EdgesSpec
CONSTANTS
  a = a
  b = b
  NoOne = NoOne
  null = null
  Caller <- MCCaller
  MinInterval = 3
  MaxNodes = 3
  UnknownCodes <- MCCodes
  MaxChanged = 3
  Lines <- MCLines
  Offered <- MCOffered
  Example <- MCExample
INVARIANTS
  EdgeTypes
  KindNamesTheCulprit
  BadNodesCostThemselves
  FencesChangeNothing
  RowIsClean
  ServesOnSoundConfig
PROPERTIES
  GrantsSpaced
  Served
  PublishedForCause
