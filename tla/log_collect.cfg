\* A collection with a failing call, a kill or a change of the cluster.
SPECIFICATION FairSpec
CONSTANTS
  DefaultNs = "default"
  Preferred <- MCPreferred
  Object <- MCObject
  Event <- MCEvent
  Api <- MCApi
  InitServed <- MCServed
  InitLive <- MCLive
  Status <- MCStatus
  Trimmed <- MCTrimmed
  Inputs <- MCInputs
  TvkGroup = "triliovault.trilio.io"
  OcpGroup = "security.openshift.io"
  OcpConfigGroup = "config.openshift.io"
  OcpOperatorGroup = "operator.openshift.io"
  OcpNs = "openshift-ingress-operator"
  MaxMishaps = 1
INVARIANTS
  CollectorTypeOK
  CollectsWhatStays
  CollectsNothingElse
  EventsFollowObjects
  RemovedOnceCopied
  SuccessMeansArchived
PROPERTY CollectorReturns
\* The program ends.
CHECK_DEADLOCK FALSE
