\* The script over clusters with custom resources, charts and the operator.
SPECIFICATION Spec
CONSTANTS
  Object <- MCObject
  ClusterKind = {"ClusterBackup"}
  Worlds <- MCWorlds
  Fresh <- MCFresh
  Guarded <- MCGuarded
  Inputs <- MCInputs
  MaxFaults = 2
INVARIANTS
  ScriptTypeOK
  SuccessMeansGone
  HealthyCleanupSucceeds
PROPERTIES
  OnlySelectedGoes
  ScriptEnds
\* The script ends, and the cluster comes to rest.
CHECK_DEADLOCK FALSE
