SPECIFICATION Spec
CONSTANTS
  a1 = a1
  web = web
  app = app
  openid = openid
  email = email
  Authorization = {a1}
  Client = {web}
  Scope = {openid, email}
  Kinds = {"authorization_code", "refresh_token", "revoke"}
  Request = {r1, r2, r3}
  Token = {t1, t2, t3, t4, t5, t6, t7}
  MaxTime = 2
  MaxIssued = 1
  ClientOf <- MCClientOf
  OpenId = openid
  CodeLife = 1
  AccessLife = 1
  RefreshLife = 1
  None = None
SYMMETRY MCSymmetry
INVARIANTS TypeOK ScopeWithinGrant
PROPERTIES AuthorizationOutlivesSession
CHECK_DEADLOCK FALSE
