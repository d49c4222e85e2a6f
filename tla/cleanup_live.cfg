\* One cleaner, under fairness, beside a run that goes on creating objects.
SPECIFICATION FairSpec
CONSTANTS
  u1 = u1
  u2 = u2
  nsA = nsA
  nsB = nsB
  Run = {u1, u2}
  Foreign = {f1}
  DefaultNs = nsA
  NoUid = NoUid
  NoNs = NoNs
  NoObj = NoObj
  Ns = {nsA, nsB}
  RunNs <- TwoNs
  AdmissionFin <- OneFin
  Linger <- Role
  MaxFaults = 1
  Cleaner = {c1}
  NVersions = 2
  Stale <- OneStale
  Fresh <- OneFresh
  InitCrds <- SomeCrds
PROPERTIES
  CleanupReturns
  TargetsVanish
\* When the calls have returned and the cluster is at rest, nothing is left to do.
CHECK_DEADLOCK FALSE
