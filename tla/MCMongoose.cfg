CONSTANTS
  Short = 2
  Long = 3
  Lens = {0, 3}
  MaxFrames = 3
  Base = 16
  MaxId = 2
  MaxOps = 2
  MaxCuts = 1
  SizeMax = 255
  Block = 8
  LengthWords = 2
  Mod = 64
  MaxDepth = 3
  MaxText = 4
  Sizes = {0, 2}
  MaxWrites = 2
  MaxInodes = 3
  MaxRequests = 2
  SendSize = 2
  HasPage404 = TRUE
  MaxUpload = 3
  MaxPieces = 4
  IntMod = 16
  LongMod = 64
  Widths = {0, 1, 3, 6}
  RealWidths = {0, 6}
  BufSizes = {0, 1, 6}
  Chars <- MCChars
  Lengths <- MCLengths
  Beginnings <- MCBeginnings
  Requests <- MCRequests
  Values <- MCValues
  Texts <- MCTexts
  Precisions <- MCPrecisions
  Reals <- MCReals
  RealPrecisions <- MCRealPrecisions
  DtoaBuf = 13
  Strings <- MCStrings
  Paths <- MCPaths
  JsonChars <- MCJsonChars
  JxxChars <- MCJxxChars
  Begins <- MCBegins
  MaxMore = 3
  JxxStrings <- MCJxxStrings
  MaxMembers = 2
  Roots = {1, 2}
  MaxCells = 9
  Keys = {"a", "b"}
  MaxItems = 3
  MaxCalls = 2
  NoKey = NoKey
  Tokens = {"[", "]", "{", "}", ",", ":", "str", "num", " ", "nl", "com", "open"}
  MaxTokens = 4
  MaxDocument = 7
  Documents <- MCDocuments
  ReadFlags <- MCFlags
  Estimates = {0, 32}
  SafeDigits = 2
  Max64 = 103
  Half64 = 52
  MaxExp = 3
  LowExp = 5
  MaxDigits = 5
  Numbers <- MCNumbers
  Literals <- MCLiterals
  WriteFlags <- MCWriteFlags
  SigBits = 5
  ExpBits = 5
  LowDot = 2
  HighDot = 4
  Chunk = 2
  Half = 1
  Significands = {0, 7, 99, 100, 101, 120, 999, 1000, 1001, 9999, 10000, 10001, 10100, 12345, 99099, 99999}
  Elements = {"a", "b", "a2"}
  Namesakes = {"a", "a2"}
  MaxRemovals = 1
  PoolSize = 14
  Pieces = {0, 1, 2, 3, 5, 14}
  TextSizes = {1, 2, 3, 7, 15, 16, 17, 40, 101, 256, 300}
  Reads = 2
SPECIFICATION Spec
INVARIANTS
  MessagesAndCommandsArrive
  FilesAreTrue
  TextsAreTrue
  TextsAreValues
  BuffersHold
  WrittenIsRead
PROPERTIES
  ValuesAreOwned
  ImplementsList
CHECK_DEADLOCK FALSE
