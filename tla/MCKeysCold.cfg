SPECIFICATION FairSpec
CONSTANTS
  Process = {p1}
  Call = {c1, c2, c3}
  Alg = {rs256, es256}
  Provisioned = Provisioned
  Initially <- MCAny
  None = None

INVARIANTS TypeOK LateProcessesAgree WarmKeystoreIsComplete
PROPERTIES EveryCallAnswered
CHECK_DEADLOCK FALSE
