\* The Q4_0 tensors of a parsed file.
SPECIFICATION Spec
CONSTANTS
  Models <- MCModels
  Texts <- MCTexts
  NegInf = 0
  PromptTexts <- MCPromptTexts
  Engines <- MCEngines
  GgufFiles <- MCGgufFiles
  BlobFiles <- MCBlobFiles
  BlobLen <- MCBlobLen
  Word32 <- MCWord32
  Word64 = {0, 1, 32}
  U64Max = 4095
  StringCap = 1
  RankCap = 1
  Key = {"general.alignment"}
  AlignmentKey = "general.alignment"
  TypeTag = {"UINT32", "STRING"}
  TensorName = {"a", "b"}
  DtypeTag = {"F32", "Q4_0"}
INVARIANTS
  Q40MatchesGgml
CHECK_DEADLOCK FALSE
