\* Two cleaners with any UID over leftovers of every kind.
SPECIFICATION Spec
CONSTANTS
  u1 = u1
  u2 = u2
  nsA = nsA
  nsB = nsB
  Run = {u1, u2}
  Foreign = {f1}
  DefaultNs = nsA
  NoUid = NoUid
  NoNs = NoNs
  NoObj = NoObj
  Ns = {nsA}
  RunNs <- OneNs
  AdmissionFin <- TwoFin
  Linger <- Role
  MaxFaults = 1
  Cleaner = {c1, c2}
  NVersions = 1
  Stale <- TwoStale
  Fresh = {}
  InitCrds <- AllCrds
SYMMETRY Cleaners
INVARIANTS
  CleanupInv
  CleanedOrReported
  StrippedOrReported
PROPERTY
  OnlySelectedDeleted
\* When the calls have returned and the cluster is at rest, nothing is left to do.
CHECK_DEADLOCK FALSE
