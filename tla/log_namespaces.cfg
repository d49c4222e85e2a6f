\* The namespaces of a config file that asks for no clustered collection.
SPECIFICATION Spec
CONSTANTS
  DefaultNs = "default"
  Preferred <- MCPreferred
  Object <- MCObject
  Event <- MCEvent
  Api <- MCApi
  InitServed <- MCServed
  InitLive <- MCLive
  Status <- MCStatus
  Trimmed <- MCTrimmed
  Inputs <- FileInputs
  TvkGroup = "triliovault.trilio.io"
  OcpGroup = "security.openshift.io"
  OcpConfigGroup = "config.openshift.io"
  OcpOperatorGroup = "operator.openshift.io"
  OcpNs = "openshift-ingress-operator"
  MaxMishaps = 0
INVARIANT FileNamespacesCount
\* The program ends.
CHECK_DEADLOCK FALSE
