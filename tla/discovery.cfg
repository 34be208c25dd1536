SPECIFICATION FairSpec
CONSTANTS
  ingressV1 = ingressV1  ingressV1beta1 = ingressV1beta1  pod = pod
  Ingress = Ingress  Pod = Pod
  Type <- WatchTypes
  KindOf <- Kinds
  Preferred <- PreferredTypes
  Ignored = {}
  Cap = 1
INVARIANT TypeOK
INVARIANT EachTypeInOnePlace
PROPERTY ControllersStartOnce
PROPERTY ServedTypesWatched
CHECK_DEADLOCK FALSE
