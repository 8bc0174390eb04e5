SPECIFICATION Spec
CONSTANTS
  s1 = s1
  s2 = s2
  hits = hits
  misses = misses
  stick = stick
  pad = pad
  m1 = m1
  m2 = m2
  Patterns <- MCPatterns
  Texts <- MCTexts
  Letters = {"a", "b"}
  Digits = {"0"}
  Spaces = {" "}
  TokenTypes <- MCTokenTypes
  TokenIds = {"OBRACE", "CBRACE", "IDENT", "WS"}
  Ignore = "WS"
  Grammars <- MCGrammars
  Sources <- MCSources
  StatThreads = {s1, s2}
  StatNames = {hits, misses}
  NullName = NullName
  MaxStats = 2
  Amounts = {1, 2}
  CounterWidth = 2
  StatOps = 2
  DeviceCount = 2
  KeyCount = 3
  Axes = {"x"}
  KeyOf <- MCKeyOf
  KeyIds = 5
  JoyFirst = 2
  Controllers = {stick, pad}
  ButtonIds = {0, 1}
  AxisIds = {0, 1}
  RawValues = {1, 3}
  ButtonMaps <- MCButtonMaps
  AxisMaps <- MCAxisMaps
  RangeMaps <- MCRangeMaps
  IntMax = 7
  NoHandle = NoHandle
  MemHandles = {m1, m2}
  BlobSize = 3
  Blocks <- MCBlocks
  VarBase = 8
  Word = 64
  FixedSize <- MCFixedSize
  Sendings <- MCSendings
  Readers <- MCReaders
  MaxCapacity = 30
  Garbage = Garbage
  PathNames = {".", "..", "a", "b"}
  MaxDepth = 5
INVARIANTS ScanFindsFirstRun ParsesLanguage RightmostDerivation ParseEnds StatsExact  BlockIOIsAFile ReadsWhatWasWritten PathResolves
CHECK_DEADLOCK FALSE
