SPECIFICATION FairSpec
CONSTANTS
  Request = {r1, r2}
  Endpoints <- MCEndpoints
  MaxFailures = 2
  None = None
INVARIANTS TypeOK SequentialRequestsKeepConnection ConnectionIsReturned OnlyRefusalStrands
PROPERTIES EveryResponseEnds
CHECK_DEADLOCK FALSE
