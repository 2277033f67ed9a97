SPECIFICATION Spec
CONSTANTS
  Process = {p1}
  Call = {c1, c2}
  Alg = {rs256}
  Provisioned = Provisioned
  Initially <- MCEmpty
  None = None

PROPERTIES PublishedKeyVerifies
CHECK_DEADLOCK FALSE
