SPECIFICATION Spec
CONSTANTS
  None = None
  NoCommand = NoCommand
  MaxTraversalDepth = 2
  ChunkSize = 2
  BatchSize = 1
  FormulaIds = {2}
  BomQuestions <- MCBomQuestions
  UsageQuestions <- MCUsageQuestions
  MoldQuestions <- MCMoldQuestions
  SubstituteQuestions <- MCSubstituteQuestions
  ThemeQuestions <- MCThemeQuestions
  MappingQuestions <- MCMappingQuestions
  ColorQuestions <- MCColorQuestions
  SearchQuestions <- MCSearchQuestions
  FileQuestions <- MCFileQuestions
  DiffQuestions <- MCDiffQuestions
  ImportQuestions <- MCImportQuestions
  StatusQuestions <- MCStatusQuestions
  Calls <- MCCalls
INVARIANTS
  BomFailsOnCycles
  BomCountsCopies
  MoldsAgree
  SubstitutesNearest
  ThemesOnce
  OverridesDecide
  PartColorsPerItem
  ValidationHonest
  SearchPages
  QuantitiesKept
  ExportsReadBack
  ImportedSound
  MappingsKept
  OutputAccounted
  DiagnosticsHarmless
  FailuresReportedOnce
CHECK_DEADLOCK FALSE
