SPECIFICATION Spec
CONSTANTS
  None = None
  NoCommand = NoCommand
  MaxTraversalDepth = 2
  ChunkSize = 2
  BatchSize = 1
  FormulaIds = {2}
  BomQuestions = {}
  UsageQuestions = {}
  MoldQuestions = {}
  SubstituteQuestions = {}
  ThemeQuestions = {}
  MappingQuestions = {}
  ColorQuestions = {}
  SearchQuestions = {}
  FileQuestions = {}
  DiffQuestions = {}
  ImportQuestions <- MCImportQuestions
  StatusQuestions = {}
  Calls = {}
INVARIANT ReferencesPass
CHECK_DEADLOCK FALSE
