\* The second snapshot of a run that passes: the documentation says the claim is unmounted.
SPECIFICATION Spec
CONSTANTS
  u1 = u1
  u2 = u2
  nsA = nsA
  k1 = k1
  k2 = k2
  Run = {u1, u2}
  Foreign = {f1}
  Ns = {nsA}
  DefaultNs = nsA
  RunNs <- MCRunNs
  AdmissionFin <- MCFin
  Cleaner = {u1, u2, c1}
  NoUid = NoUid
  NoNs = NoNs
  NoObj = NoObj
  NVersions = 1
  UserClass = {k1, k2}
  Matching = {k1}
  DefaultClass = {}
  NoClass = NoClass
  Active = {u1}
  CleanupInputs <- AnyCleanup
  DefaultPods <- MCPods
  CliFrom = 11
  Stale <- MCStale
  Linger = {"srcPod"}
  MaxFaults = 0
  MaxPolls = 1
  Cli = {}
  RunInputs <- FindInputs
  InitCrds <- AllCrds
  InitClasses <- AllClasses
INVARIANT
  SecondSnapshotIsUnmounted
\* When the calls have returned and the cluster is at rest, nothing is left to do.
CHECK_DEADLOCK FALSE
