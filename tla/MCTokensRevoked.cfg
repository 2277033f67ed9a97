SPECIFICATION Spec
CONSTANTS
  a1 = a1
  web = web
  app = app
  openid = openid
  email = email
  Authorization = {a1}
  Client = {web}
  Scope = {openid}
  Kinds = {"authorization_code", "refresh_token", "revoke", "introspect", "userinfo"}
  Request = {r1, r2}
  Token = {t1, t2, t3, t4, t5, t6}
  MaxTime = 0
  MaxIssued = 2
  ClientOf <- MCClientOf
  OpenId = openid
  CodeLife = 1
  AccessLife = 1
  RefreshLife = 2
  None = None

INVARIANTS RevokedWithAccessToken
CHECK_DEADLOCK FALSE
