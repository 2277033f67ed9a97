------------------------- MODULE TokensPromisesProofs -------------------------
(***************************************************************************)
(* Theorems about what the endpoints of Tokens promise to clients and      *)
(* users: scopes stay within what was granted, answers are complete, only  *)
(* its owner or whoever names it beside a grant of his own removes a token,*)
(* and a revoked token is refused.                                         *)
(***************************************************************************)
EXTENDS TokensProofs

Owner(p) == p.authentic /\ p.client = ClientOf[AuthorizationOf(p.token)]

Dead(t) == tokens[t].state \notin {"unused", "live"}

(* The authorization a request works for.                                  *)
Source(r) == AuthorizationOf(Redeemed(r))

Minted(r, type) ==
  \E t \in Token :
    /\ tokens[t].state # "unused" /\ tokens[t].by = r /\ tokens[t].type = type
    /\ AuthorizationOf(t) = Source(r)

Granting == {"narrow", "discard", "consume", "drop", "mint"}
Revoking == {"find", "delete"}

(* Whoever is at work with a token is its owner, of the kind of request    *)
(* that gets there, and works for the authorization of what it redeems.    *)
Entitled(r) ==
  /\ pc[r] \in Granting => payload[r].kind \in GrantKind
  /\ pc[r] \in Revoking => payload[r].kind = "revoke"
  /\ pc[r] \in Granting \cup Revoking \/ pending[r] # {} => Owner(payload[r])
  /\ pc[r] \in {"drop", "mint", "delete"} \/ pending[r] # {} =>
       work[r].authorization = Source(r)
  /\ "victim" \in pending[r] =>
       /\ payload[r].kind = "revoke"
       /\ tokens[work[r].victim].state # "unused"
       /\ AuthorizationOf(work[r].victim) = work[r].authorization

(* What it is about to write is within the scope the user has granted.     *)
Narrowing(r) ==
  pc[r] = "narrow" =>
    LET a == AuthorizationOf(payload[r].token) IN
    /\ authz[a].state # "unused"
    /\ OpenId \in payload[r].scope /\ payload[r].scope \subseteq authz[a].granted

(* What is not yet stored is still to be stored, and it is answered after. *)
Storing(r) ==
  \A type \in {"access", "refresh"} :
    /\ pc[r] = "mint" => type \in pending[r] \/ Minted(r, type)
    /\ pc[r] = "ok" /\ payload[r].kind \in GrantKind => Minted(r, type)

(* The token of a revocation is gone, or about to be removed.              *)
Removing(r) ==
  payload[r].kind = "revoke" /\ tokens[payload[r].token].type # "code" =>
    /\ pc[r] = "delete" => "token" \in pending[r] \/ Dead(payload[r].token)
    /\ pc[r] = "ok" => Dead(payload[r].token)

Consumed(t) == tokens[t].state = "consumed"

(* The grants a request names are consumed on its way.                     *)
Disposing(r) ==
  payload[r].kind \in GrantKind =>
    /\ pc[r] \in {"consume", "drop", "mint", "ok"} /\ payload[r].beside # None =>
         Consumed(Discarded(r))
    /\ pc[r] \in {"drop", "mint", "ok"} => Consumed(Redeemed(r))

Promise(r) == Entitled(r) /\ Narrowing(r) /\ Storing(r) /\ Removing(r) /\ Disposing(r)

Promises == Sessions /\ ScopeWithinGrant /\ \A r \in Request : Promise(r)

LEMMA HasPayload ==
  ASSUME TypeOK, NEW r \in Request, payload[r].kind \in Kind
  PROVE  payload[r] \in Payload /\ payload[r].token \in Token
BY NoneAssumption DEF TypeOK, NoPayload, Payload

LEMMA InitPromises == Init => Promises
<1> SUFFICES ASSUME Init PROVE Promises
  OBVIOUS
<1>1. ScopeWithinGrant
  BY DEF Init, ScopeWithinGrant
<1>2. ASSUME NEW r \in Request PROVE Promise(r)
  BY <1>2 DEF Init, Promise, Entitled, Narrowing, Storing, Removing, Disposing, Granting, Revoking
<1> QED
  BY <1>1, <1>2, InitSessions DEF Promises

-----------------------------------------------------------------------------
(* What no step takes back.                                                *)
TokensPersist ==
  \A t \in Token : tokens[t].state # "unused" =>
    /\ tokens'[t].state # "unused"
    /\ tokens'[t].type = tokens[t].type /\ tokens'[t].by = tokens[t].by
    /\ tokens'[t].authorization = tokens[t].authorization
    /\ Dead(t) => tokens'[t].state = tokens[t].state

AuthzPersist ==
  \A a \in Authorization : authz[a].state # "unused" =>
    authz'[a].state # "unused" /\ authz'[a].granted = authz[a].granted

LEMMA SameTokensPersist ==
  ASSUME tokens' = tokens PROVE TokensPersist
BY DEF TokensPersist, Dead

LEMMA RemovedPersist ==
  ASSUME Shape, NEW t \in Token, NEW reason \in TokenState \ {"unused", "live"},
         Live(t), Remove(t, reason)
  PROVE  /\ TokensPersist /\ Dead(t)' /\ tokens'[t].state = reason
         /\ \A u \in Token : u # t => tokens'[u] = tokens[u]
BY DEF Shape, TypeOK, TokenDoc, TokenState, Live, Remove, TokensPersist, Dead

LEMMA CreatedPersist ==
  ASSUME Shape, NEW t \in Token, tokens[t].state = "unused",
         NEW d \in TokenDoc, tokens' = [tokens EXCEPT ![t] = d]
  PROVE  /\ TokensPersist /\ tokens'[t] = d
         /\ \A u \in Token : u # t => tokens'[u] = tokens[u]
BY DEF Shape, TypeOK, TokensPersist, Dead

LEMMA SameAuthzPersist ==
  ASSUME authz' = authz PROVE AuthzPersist /\ (ScopeWithinGrant => ScopeWithinGrant')
BY DEF AuthzPersist, ScopeWithinGrant

(* So what holds of a request that does nothing keeps holding.             *)
LEMMA OthersKeep ==
  ASSUME Promises, TokensPersist, AuthzPersist, NEW q \in Request,
         pc'[q] = pc[q], payload'[q] = payload[q], work'[q] = work[q], pending'[q] = pending[q]
  PROVE  Promise(q)'
<1>1. Shape /\ Rooted /\ Promise(q) /\ HoldsItsData(q)
  BY DEF Promises, Sessions, Shape, Bookkeeping
<1>2. payload[q] \in Payload =>
        /\ payload[q].token \in Token /\ tokens[payload[q].token].state # "unused"
        /\ AuthorizationOf(payload[q].token)' = AuthorizationOf(payload[q].token)
        /\ AuthorizationOf(payload[q].token) \in Authorization
        /\ Source(q)' = Source(q)
  <2>1. Redeemed(q) \in {payload[q].token, payload[q].beside}
    BY DEF Redeemed
  <2>2. Redeemed(q)' = Redeemed(q)
    BY DEF Redeemed
  <2> QED
    BY <1>1, <2>1, <2>2, NamedAreTokens
       DEF Rooted, Presents, TokensPersist, AuthorizationOf, Source, Shape, Bookkeeping
<1>3. pc[q] \in Running \/ pending[q] # {} => payload[q] \in Payload
  BY <1>1 DEF HoldsItsData
<1>4. Granting \cup Revoking \subseteq Running
  BY DEF Granting, Revoking, Running
<1>5. payload[q].kind \in GrantKind \cup {"revoke"} => payload[q] \in Payload
  BY <1>1, HasPayload DEF Shape, GrantKind, Kind
<1>6. Entitled(q)'
  <2>1. "victim" \in pending[q] => work[q].victim \in Token
    BY <1>1 DEF HoldsItsData
  <2>2. "victim" \in pending[q] =>
          /\ tokens'[work[q].victim].state # "unused"
          /\ AuthorizationOf(work[q].victim)' = work[q].authorization
    BY <1>1, <2>1 DEF Promise, Entitled, TokensPersist, AuthorizationOf
  <2>3. pc[q] \in Granting \cup Revoking \/ pending[q] # {} => Owner(payload[q])'
    BY <1>1, <1>2, <1>3, <1>4 DEF Promise, Entitled, Owner
  <2>4. pc[q] \in {"drop", "mint", "delete"} \/ pending[q] # {} =>
          work'[q].authorization = Source(q)'
    BY <1>1, <1>2, <1>3 DEF Promise, Entitled, Running
  <2> QED
    BY <1>1, <2>2, <2>3, <2>4 DEF Promise, Entitled
<1>7. Narrowing(q)'
  BY <1>1, <1>2, <1>3, <1>4 DEF Promise, Narrowing, AuthzPersist, Granting
<1>8. payload[q] \in Payload =>
        \A type \in {"access", "refresh"} : Minted(q, type) => Minted(q, type)'
  BY <1>2 DEF Minted, TokensPersist, AuthorizationOf
<1>11. Disposing(q)'
  <2>1. Redeemed(q)' = Redeemed(q) /\ Discarded(q)' = Discarded(q)
    BY DEF Redeemed, Discarded
  <2>2. \A t \in Token : Consumed(t) => Consumed(t)'
    BY DEF Consumed, TokensPersist, Dead
  <2>3. CASE payload[q].kind \in GrantKind
    BY <1>1, <1>5, <2>1, <2>2, <2>3, NamedAreTokens DEF Promise, Disposing
  <2>4. CASE payload[q].kind \notin GrantKind
    BY <2>4 DEF Disposing
  <2> QED
    BY <2>3, <2>4
<1>9. Storing(q)'
  BY <1>1, <1>3, <1>4, <1>5, <1>8 DEF Promise, Storing, Granting
<1>10. Removing(q)'
  BY <1>1, <1>2, <1>5 DEF Promise, Removing, TokensPersist, Dead
<1> QED
  BY <1>6, <1>7, <1>9, <1>10, <1>11 DEF Promise

OthersSame(r) ==
  \A q \in Request : q # r =>
    /\ pc'[q] = pc[q] /\ payload'[q] = payload[q]
    /\ work'[q] = work[q] /\ pending'[q] = pending[q]

LEMMA Together ==
  ASSUME Promises, Sessions', TokensPersist, AuthzPersist, ScopeWithinGrant',
         NEW r \in Request, OthersSame(r), Promise(r)'
  PROVE  Promises'
BY OthersKeep DEF Promises, OthersSame

-----------------------------------------------------------------------------
(* Steps that concern no request.                                          *)
LEMMA EnvironmentKeeps ==
  ASSUME Promises, Sessions', Tick \/ Reap \/ \E a \in Authorization : Issue(a)
  PROVE  Promises'
<1>1. Shape /\ ScopeWithinGrant
  BY DEF Promises, Sessions
<1>2. UNCHANGED <<pc, payload, work, pending>>
  BY DEF Tick, Reap, ReapToken, ReapAuthorization, Issue, CreateAuthorization, Consent,
         IssueCode, IssueFrontChannelToken
<1>3. SUFFICES TokensPersist /\ AuthzPersist /\ ScopeWithinGrant'
  BY <1>2, OthersKeep DEF Promises
<1>4. CASE Tick
  BY <1>1, <1>4, SameTokensPersist, SameAuthzPersist DEF Tick
<1>5. ASSUME NEW t \in Token, ReapToken(t)
      PROVE  TokensPersist /\ AuthzPersist /\ ScopeWithinGrant'
  <2>1. Remove(t, "expired") /\ Live(t) /\ authz' = authz
    BY <1>5 DEF ReapToken, Remove
  <2>2. "expired" \in TokenState \ {"unused", "live"}
    BY DEF TokenState
  <2> QED
    BY <1>1, <2>1, <2>2, RemovedPersist, SameAuthzPersist
<1>6. ASSUME NEW a \in Authorization, NEW d \in AuthorizationDoc,
             authz' = [authz EXCEPT ![a] = d], tokens' = tokens,
             d.state # "unused", OpenId \in d.scope, d.scope \subseteq d.granted,
             authz[a].state # "unused" => d.granted = authz[a].granted
      PROVE  TokensPersist /\ AuthzPersist /\ ScopeWithinGrant'
  BY <1>1, <1>6, SameTokensPersist DEF Shape, TypeOK, AuthzPersist, ScopeWithinGrant
<1>7. ASSUME NEW a \in Authorization, ReapAuthorization(a) \/ Consent(a)
      PROVE  TokensPersist /\ AuthzPersist /\ ScopeWithinGrant'
  <2>1. authz[a] \in AuthorizationDoc /\ authz[a].state # "unused"
    BY <1>1, <1>7 DEF ReapAuthorization, Consent, LiveAuthorization, Shape, TypeOK
  <2>2. OpenId \in authz[a].scope /\ authz[a].scope \subseteq authz[a].granted
    BY <1>1, <2>1 DEF ScopeWithinGrant
  <2>3. PICK d \in {[authz[a] EXCEPT !.state = "expired"], [authz[a] EXCEPT !.consent = TRUE]} :
          authz' = [authz EXCEPT ![a] = d] /\ tokens' = tokens
    BY <1>7 DEF ReapAuthorization, Consent
  <2>4. /\ d \in AuthorizationDoc /\ d.state # "unused"
        /\ d.scope = authz[a].scope /\ d.granted = authz[a].granted
    BY <2>1, <2>3 DEF AuthorizationDoc
  <2> QED
    BY <1>6, <2>2, <2>3, <2>4
<1>8. ASSUME NEW a \in Authorization, NEW scope \in SUBSET Scope, CreateAuthorization(a, scope)
      PROVE  TokensPersist /\ AuthzPersist /\ ScopeWithinGrant'
  <2> DEFINE d == [state |-> "live", consent |-> FALSE, scope |-> scope,
                   granted |-> scope, expires_at |-> now + RefreshLife]
  <2>1. d \in AuthorizationDoc
    BY <1>1, LifetimeAssumption DEF AuthorizationDoc, Shape, TypeOK
  <2>2. d.state = "live" /\ d.scope = scope /\ d.granted = scope
    OBVIOUS
  <2>3. /\ authz[a].state = "unused" /\ OpenId \in scope
        /\ authz' = [authz EXCEPT ![a] = d] /\ tokens' = tokens
    BY <1>8 DEF CreateAuthorization
  <2> HIDE DEF d
  <2> QED
    BY <1>6, <2>1, <2>2, <2>3
<1>9. ASSUME NEW a \in Authorization, NEW t \in Token,
             IssueCode(a, t) \/ IssueFrontChannelToken(a, t)
      PROVE  TokensPersist /\ AuthzPersist /\ ScopeWithinGrant'
  <2>1. PICK type \in TokenType, e \in Nat :
          tokens' = [tokens EXCEPT ![t] = Document(type, a, t, None, e)]
    <3>1. now + CodeLife \in Nat /\ now + AccessLife \in Nat
      BY <1>1, LifetimeAssumption DEF Shape, TypeOK
    <3>2. "code" \in TokenType /\ "access" \in TokenType
      BY DEF TokenType
    <3> QED
      BY <1>9, <3>1, <3>2 DEF IssueCode, IssueFrontChannelToken
  <2>2. Document(type, a, t, None, e) \in TokenDoc
    BY DocumentType
  <2>3. tokens[t].state = "unused" /\ authz' = authz
    BY <1>9 DEF IssueCode, IssueFrontChannelToken, Fresh
  <2> QED
    BY <1>1, <2>1, <2>2, <2>3, CreatedPersist, SameAuthzPersist
<1> QED
  BY <1>4, <1>5, <1>7, <1>8, <1>9 DEF Reap, Issue

-----------------------------------------------------------------------------
(* What validation has found when it lets a request pass.                  *)
Passed(p, label) ==
  LET a == AuthorizationOf(p.token) IN
  /\ label \in {"narrow", "discard", "consume"} =>
       p.kind \in GrantKind /\ Owner(p) /\ Live(p.token)
  /\ label = "consume" => p.beside = None
  /\ label = "narrow" =>
       /\ authz[a].state # "unused"
       /\ OpenId \in p.scope /\ p.scope \subseteq authz[a].scope
  /\ label = "find" => p.kind = "revoke" /\ Owner(p) /\ Live(p.token)
  /\ label = "ok" => p.kind = "revoke" /\ ~Fetched(p)
  /\ label \in {"describe", "claims"} => p.kind \notin GrantKind /\ Live(p.token)
  /\ label = "inactive" => p.kind \notin GrantKind
  /\ label \in {"narrow", "discard", "consume", "find", "ok", "describe", "claims", "inactive"}

LEMMA ReceivePasses ==
  ASSUME Shape, NEW r \in Request, Receive(r)
  PROVE  /\ pc[r] = "idle"
         /\ \/ Reject(r)
            \/ \E p \in Payload, label \in Running \cup Ended :
                 /\ tokens[p.token].state # "unused"
                 /\ Accept(r, p, label) /\ Passed(p, label)
<1> DEFINE P(t, kind, beside, client, authentic, scope) ==
             [kind |-> kind, token |-> t, beside |-> beside, client |-> client,
              authentic |-> authentic, scope |-> scope]
<1>1. PICK t \in Token, kind \in Kind, client \in Client, authentic \in BOOLEAN :
        /\ Known(t)
        /\ \/ /\ kind = "authorization_code"
              /\ \E beside \in Second(t, "refresh") :
                   ReceiveCodeGrant(r, P(t, kind, beside, client, authentic, {}))
           \/ /\ kind = "refresh_token"
              /\ \E beside \in Second(t, "code"), scope \in SUBSET Scope :
                   ReceiveRefreshGrant(r, P(t, kind, beside, client, authentic, scope))
           \/ kind = "revoke" /\ ReceiveRevocation(r, P(t, kind, None, client, authentic, {}))
           \/ kind = "introspect" /\ ReceiveIntrospection(r, P(t, kind, None, client, authentic, {}))
           \/ kind = "userinfo" /\ ReceiveBearer(r, t)
  BY KindsAssumption DEF Receive
<1>2. tokens[t].state # "unused" /\ pc[r] = "idle"
  BY <1>1 DEF Known, Receive
<1>3. {"narrow", "discard", "consume", "find", "ok", "describe", "claims", "inactive"}
        \subseteq Running \cup Ended
  BY DEF Running, Ended
<1>4. ASSUME NEW scope \in SUBSET Scope, NEW beside \in Token \cup {None}
      PROVE  /\ P(t, kind, beside, client, authentic, scope) \in Payload
             /\ P(t, kind, beside, client, authentic, scope).token = t
             /\ P(t, kind, beside, client, authentic, scope).kind = kind
  BY <1>4 DEF Payload
<1> HIDE DEF P
<1>5. ASSUME NEW scope \in SUBSET Scope, NEW beside \in Token \cup {None},
             NEW p, p = P(t, kind, beside, client, authentic, scope)
      PROVE  p \in Payload /\ p.token = t /\ p.kind = kind
  BY <1>4, <1>5
<1>17. \A type : Second(t, type) \subseteq Token \cup {None}
  BY DEF Second
<1>18. ASSUME NEW p \in Payload
       PROVE  \/ FirstDeletion(p) = "consume" /\ p.beside = None
              \/ FirstDeletion(p) = "discard"
  BY DEF FirstDeletion
<1>6. ASSUME NEW p \in Payload, p.token = t, p.kind = "authorization_code", ReceiveCodeGrant(r, p)
      PROVE  \/ Reject(r)
             \/ Accept(r, p, "consume") /\ Passed(p, "consume")
             \/ Accept(r, p, "discard") /\ Passed(p, "discard")
  BY <1>6, <1>18 DEF ReceiveCodeGrant, ValidCode, Passed, Owner, GrantKind
<1>7. ASSUME NEW p \in Payload, p.token = t, p.kind = "refresh_token", ReceiveRefreshGrant(r, p)
      PROVE  \/ Reject(r)
             \/ Accept(r, p, "consume") /\ Passed(p, "consume")
             \/ Accept(r, p, "discard") /\ Passed(p, "discard")
             \/ Accept(r, p, "narrow") /\ Passed(p, "narrow")
  BY <1>7, <1>18 DEF ReceiveRefreshGrant, ValidRefreshToken, ValidScope, LiveAuthorization, Passed,
              Owner, GrantKind
<1>8. ASSUME NEW p \in Payload, p.token = t, p.kind = "revoke", ReceiveRevocation(r, p)
      PROVE  \/ Reject(r)
             \/ Accept(r, p, "ok") /\ Passed(p, "ok")
             \/ Accept(r, p, "find") /\ Passed(p, "find")
  BY <1>8 DEF ReceiveRevocation, ReceiveTokenRequest, ValidToken, Fetched, Passed, Owner
<1>9. ASSUME NEW p \in Payload, p.token = t, p.kind = "introspect", ReceiveIntrospection(r, p)
      PROVE  \/ Reject(r)
             \/ Accept(r, p, "inactive") /\ Passed(p, "inactive")
             \/ Accept(r, p, "describe") /\ Passed(p, "describe")
  BY <1>9 DEF ReceiveIntrospection, ReceiveTokenRequest, ValidToken, Fetched, Passed, Owner,
              GrantKind
<1>10. ASSUME ReceiveBearer(r, t)
       PROVE  \/ Reject(r)
              \/ \E p \in Payload : p.token = t /\ Accept(r, p, "claims") /\ Passed(p, "claims")
  <2> DEFINE b == [kind |-> "userinfo", token |-> t, beside |-> None, client |-> None,
                   authentic |-> TRUE, scope |-> authz[AuthorizationOf(t)].scope]
  <2>1. AuthorizationOf(t) \in Authorization
    BY <1>2 DEF AuthorizationOf, Shape, Bookkeeping
  <2>2. b \in Payload /\ b.token = t /\ b.kind = "userinfo"
    BY <2>1 DEF Payload, Kind, Shape, TypeOK, AuthorizationDoc
  <2>3. Reject(r) \/ (Accept(r, b, "claims") /\ Live(t))
    BY <1>10 DEF ReceiveBearer
  <2> HIDE DEF b
  <2>4. Live(t) => Passed(b, "claims")
    BY <2>2 DEF Passed, GrantKind
  <2> QED
    BY <2>2, <2>3, <2>4
<1>11. {} \in SUBSET Scope
  OBVIOUS
<1>12. CASE kind = "authorization_code" /\ \E beside \in Second(t, "refresh") :
              ReceiveCodeGrant(r, P(t, kind, beside, client, authentic, {}))
  BY <1>2, <1>3, <1>5, <1>6, <1>11, <1>12, <1>17
<1>13. CASE kind = "refresh_token" /\ \E beside \in Second(t, "code"), scope \in SUBSET Scope :
              ReceiveRefreshGrant(r, P(t, kind, beside, client, authentic, scope))
  BY <1>2, <1>3, <1>5, <1>7, <1>13, <1>17
<1>14. CASE kind = "revoke" /\ ReceiveRevocation(r, P(t, kind, None, client, authentic, {}))
  BY <1>2, <1>3, <1>5, <1>8, <1>11, <1>14
<1>15. CASE kind = "introspect" /\ ReceiveIntrospection(r, P(t, kind, None, client, authentic, {}))
  BY <1>2, <1>3, <1>5, <1>9, <1>11, <1>15
<1>16. CASE ReceiveBearer(r, t)
  BY <1>2, <1>3, <1>10, <1>16
<1> QED
  BY <1>1, <1>12, <1>13, <1>14, <1>15, <1>16

LEMMA ReceiveKeeps ==
  ASSUME Promises, Sessions', NEW r \in Request, Receive(r)
  PROVE  Promises'
<1>1. /\ Shape /\ ScopeWithinGrant /\ pc[r] = "idle" /\ pending[r] = {}
      /\ UNCHANGED <<authz, tokens, work, pending>>
  <2>1. Shape /\ ScopeWithinGrant
    BY DEF Promises, Sessions
  <2>2. pc[r] = "idle" /\ pending[r] = {}
    BY <2>1, ReceivePasses DEF Shape, Bookkeeping, HoldsItsData
  <2>3. UNCHANGED <<authz, tokens, work, pending>>
    BY <2>1, ReceivePasses DEF Reject, Accept
  <2> QED
    BY <2>1, <2>2, <2>3
<1>2. TokensPersist /\ AuthzPersist /\ ScopeWithinGrant'
  BY <1>1, SameTokensPersist, SameAuthzPersist
<1>3. CASE Reject(r)
  <2>1. pc' = [pc EXCEPT ![r] = "invalid"] /\ payload' = payload
    BY <1>3 DEF Reject, Goto
  <2>2. OthersSame(r) /\ pc'[r] = "invalid"
    BY <1>1, <2>1 DEF OthersSame, Shape, TypeOK
  <2>3. Promise(r)'
    BY <1>1, <2>2
       DEF Promise, Entitled, Narrowing, Storing, Removing, Disposing, Granting, Revoking
  <2> QED
    BY <1>2, <2>2, <2>3, Together
<1>4. ASSUME NEW p \in Payload, NEW label \in Running \cup Ended,
             tokens[p.token].state # "unused", Accept(r, p, label), Passed(p, label)
      PROVE  Promises'
  <2>1. pc' = [pc EXCEPT ![r] = label] /\ payload' = [payload EXCEPT ![r] = p]
    BY <1>4 DEF Accept, Goto
  <2>2. OthersSame(r) /\ pc'[r] = label /\ payload'[r] = p
    BY <1>1, <2>1 DEF OthersSame, Shape, TypeOK
  <2>3. p.token \in Token /\ AuthorizationOf(p.token) \in Authorization
    BY <1>1, <1>4 DEF Payload, Shape, Bookkeeping, AuthorizationOf
  <2>4. Entitled(r)'
    BY <1>1, <1>4, <2>2
       DEF Entitled, Granting, Revoking, Passed, Owner, AuthorizationOf
  <2>5. Narrowing(r)'
    BY <1>1, <1>4, <2>2, <2>3 DEF Narrowing, Passed, ScopeWithinGrant, AuthorizationOf
  <2>6. Storing(r)'
    BY <1>4, <2>2 DEF Storing, Passed, GrantKind
  <2>7. Removing(r)'
    BY <1>1, <1>4, <2>2 DEF Removing, Passed, Fetched, Live, Dead
  <2>8. Disposing(r)'
    BY <1>4, <2>2 DEF Disposing, Passed, GrantKind
  <2> QED
    BY <1>2, <2>2, <2>4, <2>5, <2>6, <2>7, <2>8, Together DEF Promise
<1> QED
  BY <1>1, <1>3, <1>4, ReceivePasses

-----------------------------------------------------------------------------
(* Steps of a request that is at work.                                     *)
LEMMA AtWork ==
  ASSUME Promises, NEW r \in Request, pc[r] \in Running \/ pending[r] # {}
  PROVE  /\ Shape /\ Promise(r) /\ HoldsItsData(r)
         /\ payload[r] \in Payload /\ payload[r].token \in Token
         /\ tokens[payload[r].token].state # "unused"
         /\ AuthorizationOf(payload[r].token) \in Authorization
         /\ Redeemed(r) \in Token /\ tokens[Redeemed(r)].state # "unused"
         /\ Source(r) \in Authorization
<1>1. Shape /\ Rooted /\ Promise(r) /\ HoldsItsData(r)
  BY DEF Promises, Sessions, Shape, Bookkeeping
<1>2. payload[r] \in Payload
  BY <1>1 DEF HoldsItsData
<1>3. Redeemed(r) \in {payload[r].token, payload[r].beside}
  BY DEF Redeemed
<1> QED
  BY <1>1, <1>2, <1>3, NamedAreTokens DEF Rooted, Presents, AuthorizationOf, Source, Shape, Bookkeeping

(* Its grant is the same after a step that leaves its parameters alone.    *)
LEMMA SameGrant ==
  ASSUME Promises, TokensPersist, NEW r \in Request, pc[r] \in Running \/ pending[r] # {},
         payload'[r] = payload[r]
  PROVE  /\ Source(r)' = Source(r)
         /\ Owner(payload[r])' <=> Owner(payload[r])
         /\ \A type \in {"access", "refresh"} : Minted(r, type) => Minted(r, type)'
         /\ Dead(payload[r].token) => Dead(payload[r].token)'
         /\ Consumed(Redeemed(r)) => Consumed(Redeemed(r))'
         /\ payload[r].beside # None /\ Consumed(Discarded(r)) => Consumed(Discarded(r))'
<1>1. Redeemed(r)' = Redeemed(r) /\ Discarded(r)' = Discarded(r)
  BY DEF Redeemed, Discarded
<1>2. Source(r)' = Source(r)
  BY <1>1, AtWork DEF TokensPersist, Source, AuthorizationOf
<1>3. \A type \in {"access", "refresh"} : Minted(r, type) => Minted(r, type)'
  BY <1>2 DEF Minted, TokensPersist, AuthorizationOf
<1>4. Dead(payload[r].token) => Dead(payload[r].token)'
  BY AtWork DEF TokensPersist, Dead
<1>5. Owner(payload[r])' <=> Owner(payload[r])
  BY AtWork DEF Owner, TokensPersist, AuthorizationOf
<1>6. \A t \in Token : Consumed(t) => Consumed(t)'
  BY DEF Consumed, TokensPersist, Dead
<1>7. /\ Consumed(Redeemed(r)) => Consumed(Redeemed(r))'
      /\ payload[r].beside # None /\ Consumed(Discarded(r)) => Consumed(Discarded(r))'
  BY <1>1, <1>6, AtWork, NamedAreTokens
<1> QED
  BY <1>2, <1>3, <1>4, <1>5, <1>7

(* ... and so is the access token it is to delete.                         *)
LEMMA SameVictim ==
  ASSUME Promises, TokensPersist, NEW r \in Request, "victim" \in pending[r],
         work'[r] = work[r]
  PROVE  /\ tokens'[work[r].victim].state # "unused"
         /\ AuthorizationOf(work[r].victim)' = work[r].authorization
BY AtWork DEF HoldsItsData, Promise, Entitled, TokensPersist, AuthorizationOf

(* A request that is not answered with success owes nothing any more.      *)
LEMMA LeaveKeeps ==
  ASSUME Promises, TokensPersist, NEW r \in Request, pc[r] \in Running \/ pending[r] # {},
         payload'[r] = payload[r], work'[r] = work[r], pending'[r] \subseteq pending[r],
         pc'[r] \in Ended \ {"ok"}
  PROVE  Promise(r)'
<1>1. Promise(r)
  BY AtWork
<1>2. pc'[r] \notin Granting \cup Revoking \cup {"ok"}
  BY DEF Ended, Granting, Revoking
<1>3. Entitled(r)'
  <2>1. pending'[r] # {} => Owner(payload[r])' /\
          work'[r].authorization = Source(r)'
    BY <1>1, SameGrant DEF Promise, Entitled
  <2>2. "victim" \in pending'[r] =>
          /\ tokens'[work[r].victim].state # "unused"
          /\ AuthorizationOf(work[r].victim)' = work'[r].authorization
    BY SameVictim
  <2>3. "victim" \in pending'[r] => payload'[r].kind = "revoke"
    BY <1>1 DEF Promise, Entitled
  <2> QED
    BY <1>2, <2>1, <2>2, <2>3 DEF Entitled, Granting, Revoking
<1> QED
  BY <1>2, <1>3 DEF Promise, Narrowing, Storing, Removing, Disposing, Granting, Revoking

(* A write that has been applied has done what it was there for.           *)
LEMMA ApplyKeeps ==
  ASSUME Promises, TokensPersist, NEW r \in Request, NEW write, Applied(r, write),
         pc'[r] = pc[r], payload'[r] = payload[r], work'[r] = work[r],
         write \in {"access", "refresh"} => Minted(r, write)',
         write = "token" => Dead(payload[r].token)'
  PROVE  Promise(r)'
<1>1. /\ Promise(r) /\ HoldsItsData(r) /\ payload[r] \in Payload /\ pending[r] # {}
      /\ pending'[r] = pending[r] \ {write}
  BY AtWork DEF Applied, Shape, TypeOK
<1>2. Entitled(r)'
  <2>1. Owner(payload[r])' /\ work'[r].authorization = Source(r)'
    BY <1>1, SameGrant DEF Promise, Entitled
  <2>2. "victim" \in pending'[r] =>
          /\ tokens'[work[r].victim].state # "unused"
          /\ AuthorizationOf(work[r].victim)' = work'[r].authorization
    BY <1>1, SameVictim
  <2> QED
    BY <1>1, <2>1, <2>2 DEF Promise, Entitled
<1>3. Narrowing(r)'
  BY <1>1 DEF HoldsItsData, Narrowing
<1>4. Storing(r)'
  BY <1>1, SameGrant DEF Promise, Storing
<1>5. Removing(r)'
  <2>1. tokens'[payload[r].token].type = tokens[payload[r].token].type
    BY <1>1, AtWork DEF TokensPersist
  <2> QED
    BY <1>1, <2>1, SameGrant DEF Promise, Removing
<1>6. Disposing(r)'
  BY <1>1, SameGrant DEF Promise, Disposing
<1> QED
  BY <1>2, <1>3, <1>4, <1>5, <1>6 DEF Promise

(* A request starts its writes, or goes on to the step before them.        *)
LEMMA StartKeeps ==
  ASSUME Promises, TokensPersist, NEW r \in Request, pc[r] \in {"consume", "drop"},
         payload'[r] = payload[r],
         work'[r].authorization = Source(r), Consumed(Redeemed(r))',
         \/ pc'[r] = "drop" /\ pending'[r] = {}
         \/ pc'[r] = "mint" /\ pending'[r] = {"access", "refresh", "extend"}
  PROVE  Promise(r)'
<1>1. pc[r] \in Running /\ pc[r] \in Granting
  BY DEF Running, Granting
<1>2. Promise(r) /\ payload[r].kind \in GrantKind /\ Owner(payload[r])
  BY <1>1, AtWork DEF Promise, Entitled
<1>3. Owner(payload[r])' /\ work'[r].authorization = Source(r)'
  BY <1>1, <1>2, SameGrant
<1>4. Disposing(r)'
  BY <1>1, <1>2, SameGrant DEF Promise, Disposing
<1> QED
  BY <1>2, <1>3, <1>4
     DEF Promise, Entitled, Narrowing, Storing, Removing, Granting, Revoking, GrantKind

LEMMA ConsumeKeeps ==
  ASSUME Promises, Sessions', NEW r \in Request,
         ConsumeCode(r) \/ ConsumeRefreshToken(r) \/ ConsumeOrphan(r)
  PROVE  Promises'
<1>1. /\ pc[r] = "consume" /\ pc[r] \in Running
      /\ Live(Redeemed(r)) /\ Remove(Redeemed(r), "consumed")
      /\ authz' = authz /\ payload' = payload
  BY DEF ConsumeCode, ConsumeRefreshToken, ConsumeOrphan, Consumable, Finds, Running
<1>2. Shape /\ TypeOK /\ Redeemed(r) \in Token /\ HoldsItsData(r) /\ ScopeWithinGrant
  BY <1>1, AtWork DEF Shape, Promises
<1>3. TokensPersist /\ AuthzPersist /\ ScopeWithinGrant' /\ Consumed(Redeemed(r))'
  <2>1. "consumed" \in TokenState \ {"unused", "live"}
    BY DEF TokenState
  <2>2. Redeemed(r)' = Redeemed(r)
    BY <1>1 DEF Redeemed
  <2> QED
    BY <1>1, <1>2, <2>1, <2>2, RemovedPersist, SameAuthzPersist DEF Consumed
<1>4. OthersSame(r)
  BY <1>2 DEF ConsumeCode, ConsumeRefreshToken, ConsumeOrphan, Hold, Goto, OthersSame, TypeOK
<1>5. CASE ConsumeCode(r) \/ ConsumeRefreshToken(r)
  <2>1. \/ pc'[r] = "drop" /\ pending'[r] = {}
        \/ pc'[r] = "mint" /\ pending'[r] = {"access", "refresh", "extend"}
    BY <1>1, <1>2, <1>5 DEF ConsumeCode, ConsumeRefreshToken, Goto, TypeOK, HoldsItsData
  <2>2. work'[r].authorization = Source(r)
    BY <1>2, <1>5 DEF ConsumeCode, ConsumeRefreshToken, Hold, Source, TypeOK
  <2>3. Promise(r)'
    BY <1>1, <1>3, <2>1, <2>2, StartKeeps
  <2> QED
    BY <1>3, <1>4, <2>3, Together
<1>6. CASE ConsumeOrphan(r)
  <2>1. pc'[r] \in Ended \ {"ok"} /\ work' = work /\ pending' = pending
    BY <1>2, <1>6 DEF ConsumeOrphan, Goto, Ended, TypeOK
  <2>2. Promise(r)'
    BY <1>1, <1>3, <2>1, LeaveKeeps
  <2> QED
    BY <1>3, <1>4, <2>2, Together
<1> QED
  BY <1>5, <1>6

(* The code that goes for nothing is the first of two deletions.           *)
LEMMA DiscardKeeps ==
  ASSUME Promises, Sessions', NEW r \in Request, DiscardCode(r)
  PROVE  Promises'
<1>1. /\ pc[r] = "discard" /\ pc[r] \in Running /\ pc[r] \in Granting
      /\ Live(Discarded(r)) /\ Remove(Discarded(r), "consumed")
      /\ pc' = [pc EXCEPT ![r] = "consume"]
      /\ UNCHANGED <<authz, payload, work, pending>>
  BY DEF DiscardCode, Finds, Running, Granting, Goto
<1>2. /\ Shape /\ TypeOK /\ Promise(r) /\ ScopeWithinGrant /\ HoldsItsData(r)
      /\ Discarded(r) \in Token
  BY <1>1, AtWork, GrantsAreTokens DEF Shape, Promises
<1>3. TokensPersist /\ AuthzPersist /\ ScopeWithinGrant' /\ Consumed(Discarded(r))'
  <2>1. "consumed" \in TokenState \ {"unused", "live"}
    BY DEF TokenState
  <2>2. Discarded(r)' = Discarded(r)
    BY <1>1 DEF Discarded
  <2> QED
    BY <1>1, <1>2, <2>1, <2>2, RemovedPersist, SameAuthzPersist DEF Consumed
<1>4. OthersSame(r)
  BY <1>1, <1>2 DEF OthersSame, TypeOK
<1>5. pc'[r] = "consume" /\ pending'[r] = {} /\ payload'[r] = payload[r]
  BY <1>1, <1>2 DEF TypeOK, HoldsItsData
<1>6. Promise(r)'
  <2>1. payload[r].kind \in GrantKind /\ Owner(payload[r])'
    BY <1>1, <1>2, <1>3, SameGrant DEF Promise, Entitled
  <2>2. Disposing(r)'
    BY <1>3, <1>5 DEF Disposing
  <2> QED
    BY <1>5, <2>1, <2>2
       DEF Promise, Entitled, Narrowing, Storing, Removing, Granting, Revoking, GrantKind
<1> QED
  BY <1>3, <1>4, <1>6, Together

LEMMA DropKeeps ==
  ASSUME Promises, Sessions', NEW r \in Request, DropAccessToken(r)
  PROVE  Promises'
<1>1. /\ pc[r] = "drop" /\ pc[r] \in Running
      /\ authz' = authz /\ payload' = payload
      /\ pending' = [pending EXCEPT ![r] = {"access", "refresh", "extend"}]
      /\ work' = [work EXCEPT ![r].at = now]
      /\ pc' = [pc EXCEPT ![r] = "mint"]
  BY DEF DropAccessToken, Running, Goto
<1>2. Shape /\ TypeOK /\ Promise(r) /\ ScopeWithinGrant
  BY <1>1, AtWork DEF Shape, Promises
<1>3. TokensPersist
  <2>1. CASE tokens' = tokens
    BY <2>1, SameTokensPersist
  <2>2. ASSUME NEW t \in AccessTokensOf(work[r].authorization), Remove(t, "dropped")
        PROVE  TokensPersist
    <3>1. t \in Token /\ Live(t)
      BY DEF AccessTokensOf
    <3>2. "dropped" \in TokenState \ {"unused", "live"}
      BY DEF TokenState
    <3> QED
      BY <1>2, <2>2, <3>1, <3>2, RemovedPersist
  <2> QED
    BY <2>1, <2>2 DEF DropAccessToken
<1>4. AuthzPersist /\ ScopeWithinGrant'
  BY <1>1, <1>2, SameAuthzPersist
<1>5. OthersSame(r)
  BY <1>1, <1>2 DEF OthersSame, TypeOK
<1>6. pc'[r] = "mint" /\ pending'[r] = {"access", "refresh", "extend"}
  BY <1>1, <1>2 DEF TypeOK
<1>7. work'[r].authorization = Source(r)
  <2>1. work[r].authorization = Source(r)
    BY <1>1, <1>2 DEF Promise, Entitled
  <2>2. work'[r].authorization = work[r].authorization
    BY <1>1, <1>2 DEF TypeOK, Work
  <2> QED
    BY <2>1, <2>2
<1>8. Consumed(Redeemed(r))'
  <2>1. payload[r].kind \in GrantKind
    BY <1>1, <1>2 DEF Promise, Entitled, Granting
  <2>2. Consumed(Redeemed(r))
    BY <1>1, <1>2, <2>1 DEF Promise, Disposing
  <2> QED
    BY <1>1, <1>3, <2>2, SameGrant
<1>9. Promise(r)'
  BY <1>1, <1>3, <1>6, <1>7, <1>8, StartKeeps
<1> QED
  BY <1>3, <1>4, <1>5, <1>9, Together

LEMMA NarrowKeeps ==
  ASSUME Promises, Sessions', NEW r \in Request, NarrowScope(r)
  PROVE  Promises'
<1> DEFINE a == AuthorizationOf(payload[r].token)
<1>1. /\ pc[r] = "narrow" /\ pc[r] \in Running /\ pc[r] \in Granting
      /\ pc' = [pc EXCEPT ![r] = FirstDeletion(payload[r])]
      /\ UNCHANGED <<tokens, payload, work, pending>>
  BY DEF NarrowScope, Running, Granting, Goto
<1>2. /\ Shape /\ TypeOK /\ Promise(r) /\ ScopeWithinGrant /\ HoldsItsData(r)
      /\ payload[r].token \in Token /\ a \in Authorization
      /\ payload[r].scope \in SUBSET Scope
  BY <1>1, AtWork DEF Shape, Promises, Payload
<1>3. TokensPersist
  BY <1>1, SameTokensPersist
<1>4. AuthzPersist /\ ScopeWithinGrant'
  <2>1. OpenId \in payload[r].scope /\ payload[r].scope \subseteq authz[a].granted
    BY <1>1, <1>2 DEF Promise, Narrowing
  <2>2. \A b \in Authorization :
          /\ authz'[b].state = authz[b].state /\ authz'[b].granted = authz[b].granted
          /\ authz'[b].scope = authz[b].scope \/ (b = a /\ authz'[b].scope = payload[r].scope)
    <3> HIDE DEF a
    <3>1. authz' = authz \/ authz' = [authz EXCEPT ![a].scope = payload[r].scope]
      BY DEF NarrowScope, a
    <3> QED
      BY <1>2, <3>1 DEF TypeOK, AuthorizationDoc
  <2> QED
    BY <1>2, <2>1, <2>2 DEF AuthzPersist, ScopeWithinGrant
<1>5. OthersSame(r)
  BY <1>1, <1>2 DEF OthersSame, TypeOK
<1>6. /\ pc'[r] = "discard" \/ (pc'[r] = "consume" /\ payload[r].beside = None)
      /\ pending'[r] = {} /\ payload'[r] = payload[r]
  BY <1>1, <1>2 DEF TypeOK, HoldsItsData, FirstDeletion
<1>7. Promise(r)'
  <2>1. payload[r].kind \in GrantKind /\ Owner(payload[r])'
    BY <1>1, <1>2, <1>3, SameGrant DEF Promise, Entitled
  <2> QED
    BY <1>6, <2>1
       DEF Promise, Entitled, Narrowing, Storing, Removing, Disposing, Granting, Revoking, GrantKind
<1> QED
  BY <1>3, <1>4, <1>5, <1>7, Together

LEMMA MintKeeps ==
  ASSUME Promises, Sessions', NEW r \in Request, NEW t \in Token,
         MintAccessToken(r, t) \/ MintRefreshToken(r, t)
  PROVE  Promises'
<1>1. PICK type \in {"access", "refresh"}, life \in Nat : Mint(r, t, type, life)
  BY LifetimeAssumption DEF MintAccessToken, MintRefreshToken
<1> DEFINE d == Document(type, work[r].authorization, work[r].root, r, work[r].at + life)
<1>2. /\ Applied(r, type) /\ pending[r] # {} /\ tokens[t].state = "unused"
      /\ tokens' = [tokens EXCEPT ![t] = d]
      /\ UNCHANGED <<authz, pc, payload, work>>
  BY <1>1 DEF Mint, Applied, Fresh
<1>3. /\ Shape /\ TypeOK /\ Promise(r) /\ ScopeWithinGrant /\ HoldsItsData(r)
      /\ Source(r) \in Authorization
      /\ work[r].authorization = Source(r)
  BY <1>2, AtWork DEF Shape, Promises, Promise, Entitled
<1>4. /\ d.state = "live" /\ d.by = r /\ d.type = type
      /\ d.authorization = work[r].authorization
  BY DEF Document
<1>5. d \in TokenDoc
  <2>1. work[r].root \in Token
    BY <1>2, <1>3 DEF Applied, HoldsItsData
  <2>2. work[r].at + life \in Nat
    BY <1>3 DEF TypeOK, Work
  <2>3. type \in TokenType /\ r \in Request \cup {None}
    BY DEF TokenType
  <2> QED
    BY <1>3, <2>1, <2>2, <2>3, DocumentType
<1> HIDE DEF d
<1>6. TokensPersist /\ tokens'[t] = d
  BY <1>2, <1>3, <1>5, CreatedPersist
<1>7. AuthzPersist /\ ScopeWithinGrant'
  BY <1>2, <1>3, SameAuthzPersist
<1>8. Minted(r, type)'
  <2>1. Source(r)' = Source(r)
    BY <1>2, <1>6, SameGrant
  <2> QED
    BY <1>2, <1>3, <1>4, <1>6, <2>1 DEF Minted, AuthorizationOf
<1>9. OthersSame(r)
  BY <1>2, <1>3 DEF OthersSame, Applied, TypeOK
<1>10. Promise(r)'
  BY <1>2, <1>6, <1>8, ApplyKeeps
<1> QED
  BY <1>6, <1>7, <1>9, <1>10, Together

LEMMA ExtendKeeps ==
  ASSUME Promises, Sessions', NEW r \in Request, ExtendAuthorization(r)
  PROVE  Promises'
<1>1. /\ Applied(r, "extend") /\ pending[r] # {}
      /\ UNCHANGED <<tokens, pc, payload, work>>
  BY DEF ExtendAuthorization, Applied
<1>2. Shape /\ TypeOK /\ ScopeWithinGrant
  BY DEF Shape, Promises, Sessions
<1>3. TokensPersist
  BY <1>1, SameTokensPersist
<1>4. AuthzPersist /\ ScopeWithinGrant'
  <2>1. \/ authz' = authz
        \/ authz' = [authz EXCEPT ![work[r].authorization].expires_at = work[r].at + RefreshLife]
    BY DEF ExtendAuthorization
  <2>2. \A b \in Authorization :
          /\ authz'[b].state = authz[b].state /\ authz'[b].granted = authz[b].granted
          /\ authz'[b].scope = authz[b].scope
    BY <1>2, <2>1 DEF TypeOK, AuthorizationDoc
  <2> QED
    BY <1>2, <2>2 DEF AuthzPersist, ScopeWithinGrant
<1>5. OthersSame(r)
  BY <1>1, <1>2 DEF OthersSame, Applied, TypeOK
<1>6. Promise(r)'
  BY <1>1, <1>3, ApplyKeeps
<1> QED
  BY <1>3, <1>4, <1>5, <1>6, Together

LEMMA FindKeeps ==
  ASSUME Promises, Sessions', NEW r \in Request, FindAccessToken(r)
  PROVE  Promises'
<1> DEFINE a == AuthorizationOf(payload[r].token)
<1>1. /\ pc[r] = "find" /\ pc[r] \in Running /\ pc[r] \in Revoking
      /\ pc' = [pc EXCEPT ![r] = "delete"]
      /\ UNCHANGED <<authz, tokens, payload>>
  BY DEF FindAccessToken, Running, Revoking, Goto
<1>2. /\ Shape /\ TypeOK /\ Promise(r) /\ ScopeWithinGrant
      /\ payload[r].token \in Token /\ a \in Authorization
  BY <1>1, AtWork DEF Shape, Promises
<1>3. PICK v \in AccessTokensOf(a) \cup {None} :
        /\ work' = [work EXCEPT ![r] =
             [authorization |-> a, root |-> tokens[payload[r].token].root,
              victim |-> v, at |-> 0]]
        /\ pending' = [pending EXCEPT ![r] =
             IF v = None THEN {"token"} ELSE {"token", "victim"}]
  BY DEF FindAccessToken
<1>4. TokensPersist /\ AuthzPersist /\ ScopeWithinGrant'
  BY <1>1, <1>2, SameTokensPersist, SameAuthzPersist
<1>5. OthersSame(r)
  BY <1>1, <1>2, <1>3 DEF OthersSame, TypeOK
<1>6. /\ pc'[r] = "delete" /\ payload'[r] = payload[r]
      /\ work'[r].authorization = a /\ work'[r].victim = v
      /\ "token" \in pending'[r] /\ ("victim" \in pending'[r] => v # None)
  BY <1>1, <1>2, <1>3 DEF TypeOK
<1>7. v # None => tokens[v].state # "unused" /\ AuthorizationOf(v) = a
  BY DEF AccessTokensOf, Live
<1>8. Promise(r)'
  <2>1. /\ payload[r].kind = "revoke" /\ Owner(payload[r])'
        /\ Source(r)' = a
    BY <1>1, <1>2, <1>4, SameGrant DEF Promise, Entitled, Source, Redeemed
  <2>2. v # None => tokens'[v].state # "unused" /\ AuthorizationOf(v)' = a
    BY <1>1, <1>7 DEF AuthorizationOf
  <2> HIDE DEF a
  <2>3. Entitled(r)'
    BY <1>6, <2>1, <2>2 DEF Entitled, Granting, Revoking
  <2> QED
    BY <1>6, <2>1, <2>3 DEF Promise, Narrowing, Storing, Removing, Disposing, GrantKind
<1> QED
  BY <1>4, <1>5, <1>8, Together

LEMMA DeleteKeeps ==
  ASSUME Promises, Sessions', NEW r \in Request, DeleteToken(r) \/ DeleteAccessToken(r)
  PROVE  Promises'
<1>1. PICK write \in {"token", "victim"}, t \in Token :
        /\ write = "token" => t = payload[r].token
        /\ Applied(r, write) /\ tokens[t].state # "unused"
        /\ (Live(t) /\ Remove(t, "revoked")) \/ (~Live(t) /\ tokens' = tokens)
        /\ UNCHANGED <<authz, pc, payload, work>>
  <2>1. CASE DeleteToken(r)
    BY <2>1, AtWork DEF DeleteToken, Delete, Applied
  <2>2. CASE DeleteAccessToken(r)
    BY <2>2, AtWork DEF DeleteAccessToken, Delete, Applied, HoldsItsData, Promise, Entitled
  <2> QED
    BY <2>1, <2>2
<1>2. Shape /\ TypeOK /\ ScopeWithinGrant
  BY DEF Shape, Promises, Sessions
<1>3. TokensPersist /\ Dead(t)'
  <2>1. "revoked" \in TokenState \ {"unused", "live"}
    BY DEF TokenState
  <2> QED
    BY <1>1, <1>2, <2>1, RemovedPersist, SameTokensPersist DEF Dead, Live
<1>4. AuthzPersist /\ ScopeWithinGrant'
  BY <1>1, <1>2, SameAuthzPersist
<1>5. OthersSame(r)
  BY <1>1, <1>2 DEF OthersSame, Applied, TypeOK
<1>6. Promise(r)'
  BY <1>1, <1>3, ApplyKeeps
<1> QED
  BY <1>3, <1>4, <1>5, <1>6, Together

(* Success is answered when nothing is pending.                            *)
LEMMA RespondKeeps ==
  ASSUME Promises, Sessions', NEW r \in Request, Respond(r)
  PROVE  Promises'
<1>1. /\ pc[r] \in {"mint", "delete"} /\ pc[r] \in Running /\ pending[r] = {}
      /\ pc' = [pc EXCEPT ![r] = "ok"]
      /\ UNCHANGED <<authz, tokens, payload, work, pending>>
  BY DEF Respond, Running, Goto
<1>2. Shape /\ TypeOK /\ Promise(r) /\ ScopeWithinGrant
  BY <1>1, AtWork DEF Shape, Promises
<1>3. TokensPersist /\ AuthzPersist /\ ScopeWithinGrant'
  BY <1>1, <1>2, SameTokensPersist, SameAuthzPersist
<1>4. OthersSame(r) /\ pc'[r] = "ok"
  BY <1>1, <1>2 DEF OthersSame, TypeOK
<1>5. Entitled(r)' /\ Narrowing(r)'
  BY <1>1, <1>4 DEF Entitled, Narrowing, Granting, Revoking
<1>6. Storing(r)'
  <2>1. \A type \in {"access", "refresh"} : Minted(r, type) => Minted(r, type)'
    BY <1>1, <1>3, SameGrant
  <2>2. payload[r].kind \in GrantKind => pc[r] = "mint"
    BY <1>1, <1>2 DEF Promise, Entitled, Revoking, GrantKind
  <2> QED
    BY <1>1, <1>2, <1>4, <2>1, <2>2 DEF Promise, Storing
<1>7. Removing(r)'
  <2>1. payload[r].kind = "revoke" => pc[r] = "delete"
    BY <1>1, <1>2 DEF Promise, Entitled, Granting, GrantKind
  <2> QED
    BY <1>1, <1>2, <1>3, <1>4, <2>1, SameGrant DEF Promise, Removing
<1>8. Disposing(r)'
  <2>1. payload[r].kind \in GrantKind => pc[r] = "mint"
    BY <1>1, <1>2 DEF Promise, Entitled, Revoking, GrantKind
  <2> QED
    BY <1>1, <1>2, <1>3, <1>4, <2>1, SameGrant DEF Promise, Disposing
<1> QED
  BY <1>3, <1>4, <1>5, <1>6, <1>7, <1>8, Together DEF Promise

(* Steps after which the request is over, or its writes go on without it.  *)
LEMMA EndKeeps ==
  ASSUME Promises, Sessions', NEW r \in Request,
         \/ ConsumeNothing(r) \/ DescribeToken(r) \/ ServeClaims(r)
         \/ Disturb(r)
  PROVE  Promises'
<1>1. /\ pc[r] \in Running \/ pending[r] # {}
      /\ UNCHANGED <<authz, tokens, payload, work>>
  BY DEF ConsumeNothing, DescribeToken, ServeClaims, Disturb, Fail, Crash, FailWrite, Applied,
         Running
<1>2. Shape /\ TypeOK /\ ScopeWithinGrant
  BY DEF Shape, Promises, Sessions
<1>3. PICK label \in Ended \ {"ok"} : pc' = [pc EXCEPT ![r] = label]
  BY DEF ConsumeNothing, DescribeToken, ServeClaims, Disturb, Fail, Crash, FailWrite, Goto,
         Ended
<1>4. \A q \in Request :
        IF q = r THEN pending'[q] \subseteq pending[q] ELSE pending'[q] = pending[q]
  BY <1>2 DEF ConsumeNothing, DescribeToken, ServeClaims, Disturb, Fail, Crash, FailWrite,
              Applied, TypeOK
<1>5. TokensPersist /\ AuthzPersist /\ ScopeWithinGrant'
  BY <1>1, <1>2, SameTokensPersist, SameAuthzPersist
<1>6. OthersSame(r) /\ pc'[r] = label
  BY <1>1, <1>2, <1>3, <1>4 DEF OthersSame, TypeOK
<1>7. Promise(r)'
  BY <1>1, <1>4, <1>5, <1>6, LeaveKeeps
<1> QED
  BY <1>5, <1>6, <1>7, Together

LEMMA StepPromises == Promises /\ [Next]_vars => Promises'
<1> SUFFICES ASSUME Promises, [Next]_vars PROVE Promises'
  OBVIOUS
<1>1. Sessions'
  BY StepSessions DEF Promises
<1>2. CASE UNCHANGED vars
  <2>1. TokensPersist /\ AuthzPersist /\ ScopeWithinGrant'
    BY <1>2, SameTokensPersist, SameAuthzPersist DEF vars, Promises
  <2> QED
    BY <1>1, <1>2, <2>1, OthersKeep DEF vars, Promises
<1>3. ASSUME NEW r \in Request, Proceed(r)
      PROVE  Promises'
  BY <1>1, <1>3, NarrowKeeps, DiscardKeeps, ConsumeKeeps, DropKeeps, MintKeeps, ExtendKeeps, FindKeeps,
     DeleteKeeps, RespondKeeps, EndKeeps DEF Proceed
<1> QED
  BY <1>1, <1>2, <1>3, EnvironmentKeeps, ReceiveKeeps, EndKeeps DEF Next

LEMMA AlwaysPromises == Spec => []Promises
BY InitPromises, StepPromises, PTL DEF Spec

(* An authorization never gets a scope the user did not grant, nor loses   *)
(* openid, although each request narrows it on the strength of a scope     *)
(* that others may have changed since it was read (compareScope).          *)
THEOREM ScopesStayGranted == Spec => []ScopeWithinGrant
<1>1. Promises => ScopeWithinGrant
  BY DEF Promises
<1> QED
  BY <1>1, AlwaysPromises, PTL

(* A token response is sent only when both tokens were stored for the      *)
(* authorization of the grant that was redeemed and every grant of the     *)
(* request was consumed, whichever writes fail, and in which order they    *)
(* and those of other requests are applied.                                *)
THEOREM AnswersComplete == Spec => []AnswersAreComplete
<1>1. ASSUME Promises, NEW r \in Request, pc[r] = "ok", r \in GrantRequests
      PROVE  /\ \A type \in {"access", "refresh"} : Minted(r, type)
             /\ \A t \in {payload[r].token, payload[r].beside} \ {None} : Consumed(t)
  <2>1. payload[r].kind \in GrantKind /\ Promise(r)
    BY <1>1 DEF GrantRequests, Promises
  <2>2. payload[r] \in Payload
    BY <1>1, <2>1, HasPayload DEF GrantKind, Kind, Promises, Sessions, Shape
  <2>3. /\ payload[r].beside # None => Consumed(Discarded(r))
        /\ Consumed(Redeemed(r))
    BY <1>1, <2>1 DEF Promise, Disposing
  <2>4. \A type \in {"access", "refresh"} : Minted(r, type)
    BY <1>1, <2>1 DEF Promise, Storing
  <2> QED
    BY <2>2, <2>3, <2>4, NamedAreTokens
<1>2. Promises => AnswersAreComplete
  BY <1>1 DEF Minted, Source, Consumed, AnswersAreComplete
<1> QED
  BY <1>2, AlwaysPromises, PTL

-----------------------------------------------------------------------------
(* Promises about steps.                                                   *)
LEMMA OnlyReceiveFills ==
  ASSUME Promises, [Next]_vars, NEW r \in Request, payload'[r] # payload[r]
  PROVE  Receive(r)
<1>1. PICK q \in Request : Receive(q) /\ payload' # payload
  BY DEF Next, vars, Tick, Reap, ReapToken, ReapAuthorization, Issue, CreateAuthorization,
         Consent, IssueCode, IssueFrontChannelToken, Proceed, NarrowScope, DiscardCode, ConsumeCode,
         ConsumeRefreshToken, ConsumeNothing, ConsumeOrphan, DropAccessToken,
         MintAccessToken, MintRefreshToken, Mint, ExtendAuthorization, FindAccessToken,
         DeleteToken, DeleteAccessToken, Delete, DescribeToken, ServeClaims, Respond,
         Disturb, Fail, Crash, FailWrite
<1>2. PICK p \in Payload : payload' = [payload EXCEPT ![q] = p]
  BY <1>1, ReceivePasses DEF Promises, Sessions, Reject, Accept
<1> QED
  BY <1>1, <1>2 DEF Promises, Sessions, Shape, TypeOK

(* Once a revocation is answered with success no request that arrives      *)
(* later is served with its token, whatever has happened in between.       *)
THEOREM RevokedTokensAreRefused == Spec => RevokedTokenIsRefused
<1> DEFINE Refused(q, r) ==
       /\ pc[q] = "ok" /\ payload[q].kind = "revoke"
       /\ tokens[payload[q].token].type # "code"
       /\ payload[r] = NoPayload /\ payload'[r] # NoPayload
       /\ payload'[r].token = payload[q].token
       => pc'[r] \in {"ok", "inactive"}
<1>1. ASSUME Promises, [Next]_vars, NEW q \in Request, NEW r \in Request
      PROVE  Refused(q, r)
  <2> SUFFICES ASSUME pc[q] = "ok", payload[q].kind = "revoke",
                      tokens[payload[q].token].type # "code",
                      payload[r] = NoPayload, payload'[r] # NoPayload,
                      payload'[r].token = payload[q].token
               PROVE  pc'[r] \in {"ok", "inactive"}
    OBVIOUS
  <2>1. Receive(r)
    BY <1>1, OnlyReceiveFills
  <2>2. Shape /\ TypeOK
    BY <1>1 DEF Promises, Sessions, Shape
  <2>3. Dead(payload[q].token)
    BY <1>1 DEF Promises, Promise, Removing
  <2>4. PICK p \in Payload, label \in Running \cup Ended : Accept(r, p, label) /\ Passed(p, label)
    BY <2>1, <2>2, ReceivePasses DEF Reject
  <2>5. payload'[r] = p /\ pc'[r] = label
    BY <2>2, <2>4 DEF Accept, Goto, TypeOK
  <2>6. ~Live(p.token)
    BY <2>3, <2>5 DEF Dead, Live
  <2> QED
    BY <2>4, <2>5, <2>6 DEF Passed
<1>2. Promises /\ [Next]_vars => [\A q, r \in Request : Refused(q, r)]_vars
  BY <1>1
<1> QED
  BY <1>2, AlwaysPromises, PTL DEF Spec, RevokedTokenIsRefused

(* A grant or token is removed only once it has expired, or by a request   *)
(* of a client that was authenticated, and that is its own client unless   *)
(* the request has named it beside another grant: be it a token presented, *)
(* one dropped by a refresh or one revoked along with its refresh token.   *)
THEOREM OwnersOrBearersRemove == Spec => OnlyOwnerOrBearerRemoves
<1> DEFINE Removes(t, r) ==
       /\ payload[r].kind # None
       /\ payload[r].authentic
       /\ payload[r].client = ClientOf[AuthorizationOf(t)] \/ NamedBeside(r, t)
       /\ pc[r] # pc'[r] \/ pending[r] # pending'[r]
     Allowed(t) ==
       Live(t) /\ ~Live(t)' =>
         \/ tokens[t].expires_at <= now
         \/ \E r \in Request : Removes(t, r)
<1>1. ASSUME Promises, NEW t \in Token, Live(t), ~Live(t)', NEW r \in Request, Proceed(r)
      PROVE  Removes(t, r)
  <2>1. Shape /\ TypeOK
    BY <1>1 DEF Promises, Sessions, Shape
  <2>2. ASSUME NEW u \in Token, NEW reason \in {"consumed", "dropped", "revoked"},
               Remove(u, reason)
        PROVE  u = t
    BY <1>1, <2>1, <2>2 DEF Remove, TypeOK, Live
  <2>3. ASSUME pc[r] \in Running \/ pending[r] # {}, Owner(payload[r]),
               AuthorizationOf(t) = AuthorizationOf(payload[r].token) \/ NamedBeside(r, t),
               pc[r] # pc'[r] \/ pending[r] # pending'[r]
        PROVE  Removes(t, r)
    <3>1. payload[r].kind # None
      BY <1>1, <2>3, AtWork, NoneAssumption DEF Payload
    <3> QED
      BY <2>3, <3>1 DEF Owner
  <2> HIDE DEF Removes
  <2>9. ASSUME pc[r] \in Granting, Redeemed(r) # payload[r].token
        PROVE  /\ Redeemed(r) = payload[r].beside /\ payload[r].beside # None
               /\ payload[r].kind \in GrantKind
    BY <2>9 DEF Redeemed, GrantKind
  <2>10. CASE DiscardCode(r)
    <3>1. /\ pc[r] = "discard" /\ pc[r] \in Running /\ pc[r] \in Granting
          /\ Remove(Discarded(r), "consumed") /\ pc' = [pc EXCEPT ![r] = "consume"]
      BY <2>10 DEF DiscardCode, Goto, Running, Granting
    <3>2. pc[r] # pc'[r]
      BY <2>1, <3>1 DEF TypeOK
    <3>3. /\ Discarded(r) = t /\ Owner(payload[r]) /\ payload[r].kind \in GrantKind
          /\ payload[r].beside # None
      BY <1>1, <2>1, <2>2, <3>1, AtWork, GrantsAreTokens, NoneAssumption
         DEF Promise, Entitled, HoldsItsData
    <3>4. t = payload[r].token \/ NamedBeside(r, t)
      BY <3>3 DEF NamedBeside, Discarded
    <3> QED
      BY <2>3, <3>1, <3>2, <3>3, <3>4
  <2>4. CASE ConsumeCode(r) \/ ConsumeRefreshToken(r) \/ ConsumeOrphan(r)
    <3>1. /\ pc[r] = "consume" /\ pc[r] \in Running /\ pc[r] \in Granting
          /\ Remove(Redeemed(r), "consumed")
          /\ pc' = [pc EXCEPT ![r] = "mint"] \/ pc' = [pc EXCEPT ![r] = "drop"]
               \/ pc' = [pc EXCEPT ![r] = "error"]
      BY <2>4 DEF ConsumeCode, ConsumeRefreshToken, ConsumeOrphan, Consumable, Goto, Running,
                  Granting
    <3>2. pc[r] # pc'[r]
      BY <2>1, <3>1 DEF TypeOK
    <3>3. Redeemed(r) = t /\ Owner(payload[r])
      BY <1>1, <2>2, <3>1, AtWork DEF Promise, Entitled
    <3>4. t = payload[r].token \/ NamedBeside(r, t)
      BY <2>9, <3>1, <3>3 DEF NamedBeside
    <3> QED
      BY <2>3, <3>1, <3>2, <3>3, <3>4
  <2>5. CASE DropAccessToken(r)
    <3>1. /\ pc[r] = "drop" /\ pc[r] \in Running /\ pc[r] \in Granting
          /\ pc' = [pc EXCEPT ![r] = "mint"]
      BY <2>5 DEF DropAccessToken, Goto, Running, Granting
    <3>2. pc[r] # pc'[r]
      BY <2>1, <3>1 DEF TypeOK
    <3>3. t \in AccessTokensOf(work[r].authorization)
      <4>1. PICK u \in AccessTokensOf(work[r].authorization) : Remove(u, "dropped")
        BY <1>1, <2>5 DEF DropAccessToken, Live
      <4> QED
        BY <2>2, <4>1 DEF AccessTokensOf
    <3>4. /\ AuthorizationOf(t) = AuthorizationOf(Redeemed(r)) /\ Owner(payload[r])
          /\ tokens[t].type = "access"
      BY <1>1, <3>1, <3>3, AtWork DEF AccessTokensOf, Promise, Entitled, Source
    <3>5. AuthorizationOf(t) = AuthorizationOf(payload[r].token) \/ NamedBeside(r, t)
      BY <2>9, <3>1, <3>4 DEF NamedBeside
    <3> QED
      BY <2>3, <3>1, <3>2, <3>4, <3>5
  <2>6. CASE DeleteToken(r) \/ DeleteAccessToken(r)
    <3>1. PICK write \in {"token", "victim"} :
            /\ Applied(r, write)
            /\ t = IF write = "token" THEN payload[r].token ELSE work[r].victim
      <4>1. DeleteToken(r) => Applied(r, "token") /\ t = payload[r].token
        BY <1>1, <2>2, AtWork DEF DeleteToken, Delete, Applied, Live
      <4>2. DeleteAccessToken(r) => Applied(r, "victim") /\ t = work[r].victim
        BY <1>1, <2>2, AtWork DEF DeleteAccessToken, Delete, Applied, Live, HoldsItsData
      <4> QED
        BY <2>6, <4>1, <4>2
    <3>2. pending[r] # {} /\ pending[r] # pending'[r]
      BY <2>1, <3>1 DEF Applied, TypeOK
    <3>3. AuthorizationOf(t) = AuthorizationOf(payload[r].token) /\ Owner(payload[r])
      <4>1. Promise(r)
        BY <1>1, <3>2, AtWork
      <4>2. CASE write = "token"
        BY <3>1, <3>2, <4>1, <4>2 DEF Promise, Entitled
      <4>3. CASE write = "victim"
        BY <3>1, <3>2, <4>1, <4>3 DEF Applied, Promise, Entitled, Source, Redeemed
      <4> QED
        BY <4>2, <4>3
    <3> QED
      BY <2>3, <3>2, <3>3
  <2>7. ASSUME NEW u \in Token, MintAccessToken(r, u) \/ MintRefreshToken(r, u)
        PROVE  FALSE
    <3>1. u # t
      BY <1>1, <2>7 DEF MintAccessToken, MintRefreshToken, Mint, Fresh, Live
    <3> QED
      BY <1>1, <2>1, <2>7, <3>1 DEF MintAccessToken, MintRefreshToken, Mint, Live, TypeOK
  <2>8. tokens' # tokens
    BY <1>1 DEF Live
  <2> QED
    BY <1>1, <2>4, <2>5, <2>6, <2>7, <2>8, <2>10
       DEF Proceed, NarrowScope, ConsumeNothing, ExtendAuthorization, FindAccessToken,
           DescribeToken, ServeClaims, Respond
<1> HIDE DEF Removes
<1>2. ASSUME Promises, [Next]_vars, NEW t \in Token, Live(t), ~Live(t)'
      PROVE  tokens[t].expires_at <= now \/ \E r \in Request : Removes(t, r)
  <2>1. Shape /\ TypeOK /\ tokens' # tokens
    BY <1>2 DEF Promises, Sessions, Shape, Live
  <2>2. ASSUME NEW u \in Token, ReapToken(u)
        PROVE  tokens[t].expires_at <= now
    BY <1>2, <2>1, <2>2 DEF ReapToken, Live, TypeOK
  <2>3. ASSUME NEW a \in Authorization, NEW u \in Token,
               IssueCode(a, u) \/ IssueFrontChannelToken(a, u)
        PROVE  FALSE
    <3>1. u # t
      BY <1>2, <2>3 DEF IssueCode, IssueFrontChannelToken, Fresh, Live
    <3> QED
      BY <1>2, <2>1, <2>3, <3>1 DEF IssueCode, IssueFrontChannelToken, Live, TypeOK
  <2>4. ASSUME NEW r \in Request, Receive(r)
        PROVE  FALSE
    BY <2>1, <2>4, ReceivePasses DEF Reject, Accept
  <2>5. ASSUME NEW r \in Request, Disturb(r)
        PROVE  FALSE
    BY <2>1, <2>5 DEF Disturb, Fail, Crash, FailWrite
  <2>6. \/ \E u \in Token : ReapToken(u)
        \/ \E a \in Authorization, u \in Token : IssueCode(a, u) \/ IssueFrontChannelToken(a, u)
        \/ \E r \in Request : Receive(r) \/ Proceed(r) \/ Disturb(r)
    BY <1>2, <2>1 DEF Next, vars, Tick, Reap, ReapAuthorization, Issue, CreateAuthorization,
                      Consent
  <2> QED
    BY <1>1, <1>2, <2>2, <2>3, <2>4, <2>5, <2>6
<1>3. Promises /\ [Next]_vars => [\A t \in Token : Allowed(t)]_vars
  BY <1>2
<1> QED
  <2> USE DEF Removes
  <2> QED
    BY <1>3, AlwaysPromises, PTL DEF Spec, OnlyOwnerOrBearerRemoves

=============================================================================
