SPECIFICATION FairResourceSpec
CONSTANTS
  rs = rs  pod1 = pod1  pod2 = pod2  svc = svc  ing = ing  node = node
  ReplicaSet = ReplicaSet  Pod = Pod  Service = Service  Ingress = Ingress  Node = Node
  offshoot = offshoot  exposed_by = exposed_by  located_on = located_on
  OID <- Shared
  EdgeLabel <- Labels
  Targets <- SharedTargets
  GroupKind <- Kinds
  GroupKindOf <- Of
  Offshoot = offshoot
  View = view
  Before <- Order
INVARIANT ResourceTypeOK
INVARIANT NoStrangers
INVARIANT ResponseExact
INVARIANT OffshootsAgree
PROPERTY ResourceGraphReturns
