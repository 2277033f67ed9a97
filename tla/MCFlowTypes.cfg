SPECIFICATION Spec
CONSTANTS
  Tab = {t1, t2}
  User = {u1}
  Client = {c1}
  Prompts <- MCMixedPrompts
  Asks <- MCAsks
  Consents = {"absent"}
  CookiesExpire = TRUE
  None = None
SYMMETRY MCSymmetry
INVARIANTS SpentSessionIsForgotten IdTokenHasNonce AnswerAsRequested
CHECK_DEADLOCK FALSE
