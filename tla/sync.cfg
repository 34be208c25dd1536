SPECIFICATION FairSyncSpec
CONSTANTS
  dep = dep  rs = rs  pod = pod  v1 = v1  v2 = v2
  Deployment = Deployment  ReplicaSet = ReplicaSet  Pod = Pod  offshoot = offshoot
  OID <- Owned
  EdgeLabel <- Labels
  Targets <- DescribedTargets
  Kind <- Kinds
  KindOf <- Of
  Live <- LiveDeployment
  Connections <- Descriptors
  Value <- Values
  Match <- SameValue
  Names <- OwnedByDep
  Absent = Absent  Idle = Idle
  MaxChanges = 1
  MaxFailures = 1
INVARIANT SyncTypeOK
INVARIANT OwnChangesHeeded
PROPERTY DeclarationsFollow
PROPERTY EdgesFollow
