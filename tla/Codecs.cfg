SPECIFICATION Spec
CONSTANTS
  KeySize = 2
  Keys <- MCKeys
  Unset <- MCUnset
  Types <- MCTypes
  Slips <- MCSlips
  MaxSlips = 2
  None = None
  Letters = {"e", "p"}
  TagNames = {"e", "p", "alt"}
  Contents = {"c1", "c2"}
  tag_hash <- MCTagHash
  Width = 5
  MaxTags = 5
  IdLength = 2
  PostedEvents <- MCPosts
  Characters <- MCCharacters
  Memory <- MCMemory
  NumberText <- MCNumberText
  Nothing = Nothing
  Size = 2
  CountWidth = 3
  Ids <- MCIds
  HexChars <- MCHexChars
  MaxText = 6
  Alphabet <- MCAlphabet
  Alnum <- MCAlnum
  Lower <- MCLower
  Unac <- MCUnac
  Utf8 <- MCUtf8
  TokenBytes = 3
  RelWidth = 8
  RoutedEvents <- MCRouted
  DepthMax = 7
  MaxContent = 4
  MaxTitle = 1
  MaxQuery = 2
  Enabled <- MCEnabled
  MaxEnabled = 2
  EventKinds = {1, 7}
  MaxCount = 2
  Order <- MCOrder
  Decimals = 2
  Start = 5
  Now = 1200
INVARIANTS
  ReportReadsBack
  OnlyTrueKeys
  BindingExact
  TagsFound
  WorkIsSmallness
  RowsKeepDocuments
  ServedVerifies
  PrefixMeansText
  SearchFinds
  SlashIsOneRelay
\* A text is read once.
CHECK_DEADLOCK FALSE
