SPECIFICATION FairSpec
CONSTANTS
  Tab = {t1, t2}
  User = {u1}
  Client = {c1, c2}
  Prompts <- MCFormPrompts
  Asks <- MCCode
  Consents = {"absent", "false"}
  CookiesExpire = FALSE
  None = None
PROPERTIES FlowEnds
CHECK_DEADLOCK FALSE
