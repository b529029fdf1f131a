CONSTANTS
  Blank <- MCBlank
  Unmapped <- MCUnmapped
  TypeMap <- MCTypeMap
  RegexLike <- MCRegexLike
  Untokenized = {"?"}
  WindowSize = 3
  WindowOverlap = 2
  Letters <- MCLetters
  Quotes = {"q"}
  Apostrophes = {"'"}
  Leading = {"["}
  Trailing = {","}
  OpenParen = "("
  CloseParen = ")"
  FullStop = "."
  PossessiveS = "s"
  Comma = ","
  Abbreviations <- MCAbbreviations
  AddressType = "ind"
  Malformed = "malformed"
  Rows <- MCRows
  ServiceTypes = {"pe", "ind", "dt", "med", "leg", "rel", "fin", "pro", "org", "loc"}
  Labels <- MCLabels
  StrayLabels <- MCStrayLabels
  RegexType = "R"
  Names <- MCNames
  Places <- MCPlaces
  Companies <- MCCompanies
  Terms <- MCTerms
  Addresses <- MCAddresses
  Filler <- MCFiller
  Stop <- MCStop
  Apart <- MCApart
  Open <- MCOpen
  Close <- MCClose
  Quote <- MCQuote
  Source = {"multinerd"}
  Text = {"m1", "m2", "m3", "m4", "m5", "m6", "s1", "n1", "n2", "b1"}
  Examples <- MCExamples
  SyntheticPacks <- MCSynthetic
  HardNegativePacks <- MCHardNegatives
  BoundaryHardPacks <- MCBoundaryHard
  ListedBefore <- MCListedBefore
  Orders <- MCOrders
  Formatted = {"processed", "cleaned"}
  MaxPrograms = 7
SPECIFICATION BothSpec
INVARIANTS
  RowsConvertExactly
  ConvertedValid
  ValidatorsAgree
  PerfectScore
  ShortEntitiesHidden
  EnginesAgree
  ScoresAddUp
  SplitsPartition
  CleanedComplete
  CleanChat
CHECK_DEADLOCK FALSE
