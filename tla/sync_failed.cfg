SPECIFICATION SyncSpec
CONSTANTS
  dep = dep  rs = rs  pod = pod  v1 = v1  v2 = v2
  Deployment = Deployment  ReplicaSet = ReplicaSet  Pod = Pod  offshoot = offshoot
  OID <- Scaled
  EdgeLabel <- Labels
  Targets <- DescribedTargets
  Kind <- Kinds
  KindOf <- Of
  Live <- LivePod
  Connections <- Descriptors
  Value <- Values
  Match <- SameValue
  Names <- OwnedByDep
  Absent = Absent  Idle = Idle
  MaxChanges = 0
  MaxFailures = 1
PROPERTY FailedListsRetried
