\* One run alone, with failing API calls, under fairness.
SPECIFICATION FairSpec
CONSTANTS
  u1 = u1
  u2 = u2
  nsA = nsA
  k1 = k1
  k2 = k2
  Run = {u1, u2}
  Foreign = {f1}
  Ns = {nsA}
  DefaultNs = nsA
  RunNs <- MCRunNs
  AdmissionFin <- MCFin
  Cleaner = {u1, u2, c1}
  NoUid = NoUid
  NoNs = NoNs
  NoObj = NoObj
  NVersions = 1
  UserClass = {k1, k2}
  Matching = {k1}
  DefaultClass = {}
  NoClass = NoClass
  Active = {u1}
  CleanupInputs <- AnyCleanup
  DefaultPods <- MCPods
  CliFrom = 11
  Stale <- MCStale
  Linger = {"cap0", "srcPod"}
  MaxFaults = 1
  MaxPolls = 2
  Cli = {}
  RunInputs <- SoloInputs
  InitCrds <- SomeCrds
  InitClasses <- AllClasses
INVARIANTS
  TypeOK
  SnapshotCheckIsGated
  SecondSnapshotAfterDelete
  CleanRunLeavesCapabilityPodsOnly
  FailedRunIsKept
  BinariesSkippedOnlyIfAsked
PROPERTIES
  KeepsContract
  RunReturns
\* When the calls have returned and the cluster is at rest, nothing is left to do.
CHECK_DEADLOCK FALSE
