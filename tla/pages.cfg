SPECIFICATION PageSpec
CONSTANTS
  dep = dep  rs = rs  pod = pod  svc = svc
  offshoot = offshoot  exposed_by = exposed_by
  anyKind = anyKind  groupOnly = groupOnly
  noLayout = noLayout  noPage = noPage  allPages = allPages
  OID <- Objects
  EdgeLabel <- Labels
  Targets <- MayFind
  Kind <- Kinds
  KindOf <- KindsOf
  KeyOf <- KeysOf
  Offshoot <- offshoot
  DirectLabels = {offshoot}
  AnyKind <- anyKind
  GroupOnly <- groupOnly
  NoLayout <- noLayout
  NoPage <- noPage
  AllPages <- allPages
  LayoutBlocks <- BlocksOfLayouts
  Views <- AllViews
  Blocks <- AllBlocks
  Queries <- AllQueries
  Live <- Uncached
  Groups = {{"Pod", "Service"}}
  Beginnings <- AtFirst
  MaxChanges = 2
INVARIANT PageTypeOK
INVARIANT RefsBetween
INVARIANT ObjectsAreAnswers
INVARIANT ViewComplete
INVARIANT CreationsAccounted
INVARIANT MissingWasMissing
PROPERTY PageReturns
