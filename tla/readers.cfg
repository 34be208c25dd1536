SPECIFICATION FairReadersSpec
CONSTANTS
  dep = dep  rs = rs  pod = pod  r1 = r1  r2 = r2
  offshoot = offshoot  exposed_by = exposed_by
  EdgeLabel <- Labels
  DirectLabels <- Direct
  Offshoot = offshoot
  NoUpdate = NoUpdate  NoRequest = NoRequest
  OID <- Ring
  Targets <- RingTargets
  Reader <- TwoReaders
INVARIANT ReadersTypeOK
INVARIANT DirectLinksMutual
INVARIANT AnswersAreSnapshots
PROPERTY LinksReturns
PROPERTY UpdatesAreApplied
