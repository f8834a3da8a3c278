SPECIFICATION Spec
CONSTANTS
  Snapshots = {"s1"}
  QueueOrder <- TwoRows
  EvidenceOf <- SomeEvidence
  PageSize = 1
  MaxWorkspaceReads = 2
  GoldSets = {"g1"}
  ReadyCohorts = {{"g1"}}
  TrainingRuns = {"r1", "r2"}
  RunPhases <- TwoPhases
  Forms <- TwoForms
  RunOutcomes = {"completed"}
  Packages <- TwoPackages
  Evaluations <- TwoEvaluations
  JobModel <- JobBindings
  JobCreated <- JobTimes
  FootprintBars = 1
  JobOrder <- JobList
  JobFilters = {"all", "active"}
  JobOutcomes = {"failed"}
  JobPageSize = 1
  MaxJobReads = 1
  MaxQueuePosts = 1
  CatalogOrder <- TwoTargets
  TargetPageSize = 1
  MaxTargetReads = 2
  Pixels <- OnePixel
  MaxSimTime = 3
  Curves <- TwoCurves
  TargetPoints = 10
  FloatBits = 4
  PowerOfTwo <- PowersToSixteen
  Monitored = {"python-ml-worker", "go-api"}
  TimeRanges = {"1h", "6h"}
  SignalStates <- TwoSignals
  MaxMonitorReads = 2
  LakeObjects <- TwoObjects
  SilverPresets = {"lightcurve"}
  LakePageSize = 1
  MaxLakeReads = 2
  InspectedKeys = {"", "fits1", "fits2", "parquet1"}
  FormatOf <- SomeFormats
  HdusOf <- SomeHdus
  MatchedRows <- SomeMatches
  PreviewPageSize = 1
  MaxPreviewReads = 2
  LedgerOrder <- TwoProducts
  LedgerSizes = {1, 2}
  FirstLedgerSize = 1
  MaxLedgerReads = 2
  OverviewBodies <- SomeBodies
  MaxOverviewReads = 2
  WorkPages = {"labeling", "training", "evaluation", "evolution"}
INVARIANTS
  EvidenceOfSelection
  BasisOfTarget
  
  
  EvidenceOfPackage
CHECK_DEADLOCK FALSE
