\* Two users of the module library; every small diagram with its joins; every small bundle;
\* every small file with its modules; every small nesting of two calls.
SPECIFICATION Spec
CONSTANTS
  Users = {c1, c2}
  Modules <- LibraryModules
  Documents <- LibraryDocuments
  Workflows <- LibraryWorkflows
  Tenant = "t"
  MaxVersions = 2
  MaxSnapshots = 1
  Diagrams <- AllDocuments
  StageBudget = 4
  MaxPathDepth = 8
  Pairs <- AllPairs
  Letters <- AllLetters
  Bundles <- AllBundles
  Flows <- AllFlows
  TaskLimit = 9
  Files <- AllFiles
  Texts <- AllTexts
  Main = "main"
  Callee = "m"
  Fold <- FoldCase
SYMMETRY Symmetry
INVARIANTS
  OneModulePerName
  NewestIsActive
  PublishedIsAcyclic
  SnapshotResolves
  JoinIsPostDominator
  PlanRunsTheDiagram
  BoundaryLandsOnItsTask
  RevertNamesItsCopy
  AcceptedFitsTheLimit
  IssuesReachTheirCalls
  CompiledWereChecked
  BundleMeansTheSame
  ContractIsKept
  ContractIsEnough
  NoWaitLeftUnsaid
  UnforcedKeepsTheRoutes
CHECK_DEADLOCK FALSE
