SPECIFICATION LocatorSpec
CONSTANTS
  podA = podA  podB = podB  svc = svc  svcB = svcB  mon = mon  rs = rs  dep = dep  hpa = hpa
  sa = sa  saV = saV  crb = crb  rb = rb  db = db  app = app  dbView = dbView  podView = podView
  absent = absent  missing = missing  malformed = malformed
  Object <- Objects
  GVKOf <- GVKs
  NamespaceOf <- NamespacesOf
  NameOf <- Names
  Namespaced <- NamespacedKinds
  NamespaceAll = ""
  Looks <- AllLooks
  Absent <- absent
  Missing <- missing
  Malformed <- malformed
  Edges <- Connections
  Requests <- Locators
  Worlds <- UsualWorld
  Changes <- AnyChange
  MaxChanges = 2
INVARIANT LocatorTypeOK
INVARIANT LinksExact
INVARIANT DirectionsAgree
INVARIANT LocateMissesNothing
INVARIANT LocateInventsNothing
