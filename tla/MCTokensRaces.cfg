SPECIFICATION Spec
CONSTANTS
  a1 = a1
  web = web
  app = app
  openid = openid
  email = email
  Authorization = {a1}
  Client = {web}
  Scope = {openid}
  Kinds = {"authorization_code", "refresh_token", "revoke"}
  Request = {r1, r2, r3, r4}
  Token = {t1, t2, t3, t4, t5, t6, t7, t8, t9}
  MaxTime = 0
  MaxIssued = 1
  ClientOf <- MCClientOf
  OpenId = openid
  CodeLife = 1
  AccessLife = 1
  RefreshLife = 2
  None = None
SYMMETRY MCSymmetry
INVARIANTS NoForkedSession RevokedSessionIsDead OneAccessToken AnswersAreComplete
PROPERTIES ChainPromise
CHECK_DEADLOCK FALSE
