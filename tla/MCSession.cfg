\* Parsing, encoding, and every engine on one prompt.
SPECIFICATION Spec
CONSTANTS
  Models <- MCModels
  Texts <- MCTexts
  NegInf = 0
  PromptTexts <- MCPromptTexts
  Engines <- MCEngines
  GgufFiles <- MCGgufFiles
  BlobFiles <- MCBlobFiles
  BlobLen <- MCBlobLen
  Word32 <- MCWord32
  Word64 <- MCWord64
  U64Max = 4095
  StringCap = 1
  RankCap = 1
  Key = {"general.alignment"}
  AlignmentKey = "general.alignment"
  TypeTag = {"UINT32", "STRING"}
  TensorName = {"a", "b"}
  DtypeTag = {"F32", "Q4_0"}
INVARIANTS
  TypeOK
  RoundTrip
  ScanFindsBest
  RanksInOrder
  PanicsOnlyAtQuote
  EngineIsReference
  TensorsInFile
  LookupFindsLast
  ReservationIsExact
PROPERTIES
  CursorMovesForward
  SessionEnds
\* A session ends when its last part has returned.
CHECK_DEADLOCK FALSE
