SPECIFICATION Spec
CONSTANTS
  Tab = {t1, t2}
  User = {u1, u2}
  Client = {c1, c2}
  Prompts <- MCPrompts
  Asks <- MCCode
  Consents = {"absent", "true"}
  CookiesExpire = FALSE
  None = None
SYMMETRY MCSymmetry
INVARIANTS TypeOK
PROPERTIES SilentStaysSilent FlowPromise RequestedFormIsShown
CHECK_DEADLOCK FALSE
