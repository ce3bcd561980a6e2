SPECIFICATION AnySpec
CONSTANTS
  PROJECT_DIRS <- TwoProjects
  Taps = "taps-asio"
  None = None
  WARMUP_PROJECTS = 1
  MaxRuns = 2
  NameOrder <- Compilers
  LIBRARY_ORDER <- TwoKnown
  CHUNK_SIZE = 2
  Inputs <- SmallInputs
  Reports <- SomeReports
  Sorted <- Directories
  preferred_order <- Preferred
  Names <- AllNames
  Merged = "merged"
  All = "benchmark_global_report_all"
  MergeRuns = 2
INVARIANTS OneBaseline ArtifactsAgree MasterIsMeasured TablesAreWritten BestIsBest GlobalReportAgrees ReportsAreMerged
CHECK_DEADLOCK FALSE
