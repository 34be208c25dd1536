SPECIFICATION Spec
CONSTANTS
  dep = dep  rs1 = rs1  rs2 = rs2  pod1 = pod1  pod2 = pod2  svc = svc
  offshoot = offshoot  exposed_by = exposed_by
  OID <- Triple
  EdgeLabel <- OneLabel
  Targets <- TripleTargets
INVARIANT TypeOK
INVARIANT Symmetric
INVARIANT EdgesDeclared
PROPERTY LostOnlyIfWithdrawn
