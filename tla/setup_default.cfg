\* The default class the documentation promises.
SPECIFICATION Spec
CONSTANTS
  u1 = u1
  u2 = u2
  nsA = nsA
  fits = fits
  default = default
  other = other
  Run = {u1, u2}
  Foreign = {}
  Ns = {nsA}
  DefaultNs = nsA
  RunNs <- MCRunNs
  AdmissionFin = {}
  Linger = {}
  MaxFaults = 1
  UserClass = {fits, default, other}
  Matching = {fits, default}
  DefaultClass = {default}
  NoClass = NoClass
  InitCrds <- AnyCrds
INVARIANT
  DefaultIsEnsured
\* When the calls have returned and the cluster is at rest, nothing is left to do.
CHECK_DEADLOCK FALSE
