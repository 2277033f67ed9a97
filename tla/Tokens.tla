------------------------------- MODULE Tokens -------------------------------
(***************************************************************************)
(* The token store of the provider and the four endpoints that work on it: *)
(* /api/token (authorization_code and refresh_token grants),               *)
(* /api/token/revoke, /api/token/introspect and /api/userinfo.             *)
(*                                                                         *)
(* A request is a process.  Every `await` that reads or writes the         *)
(* database is a step of its own, because another request, or MongoDB's    *)
(* TTL monitor, may run between two of them; the writes that the code      *)
(* starts together in a Promise.all are a set of pending writes that are   *)
(* applied in any order, and that go on when one of them has failed and    *)
(* the request has already been answered.                                  *)
(*                                                                         *)
(* The authorization endpoint appears here only through what it writes:    *)
(* the authorization, its consent, its codes and front-channel tokens.     *)
(*                                                                         *)
(* A definition marked `Fault` is no part of the specification: it is the  *)
(* definition below it with a mistake that a property has to notice.       *)
(***************************************************************************)
EXTENDS Integers, FiniteSets

CONSTANTS
  Authorization,  \* ids of authorization documents
  Token,          \* ids of token documents, of all three types
  Request,        \* HTTP requests to the four endpoints, each made once
  Kinds,          \* the kinds of requests that are made
  Client,         \* registered clients
  ClientOf,       \* the client_id of every authorization
  Scope,          \* scope values
  OpenId,         \* the one scope value every authorization contains
  CodeLife,       \* LIFETIME.AUTHORIZATION_CODE
  AccessLife,     \* LIFETIME.ACCESS_TOKEN
  RefreshLife,    \* LIFETIME.REFRESH_TOKEN, of authorizations too
  MaxTime,        \* bound on the clock
  MaxIssued,      \* bound on codes and tokens the authorization endpoint issues
  None            \* null, undefined

ASSUME ClientAssumption == ClientOf \in [Authorization -> Client]
ASSUME ScopeAssumption == OpenId \in Scope
ASSUME LifetimeAssumption ==
  /\ CodeLife \in Nat /\ AccessLife \in Nat /\ RefreshLife \in Nat
  /\ MaxTime \in Nat /\ MaxIssued \in Nat

VARIABLES
  now,      \* the clock
  authz,    \* the collection of authorizations
  tokens,   \* the collection of codes, access tokens and refresh tokens
  pc,       \* where each request is, or how it was answered
  payload,  \* the validated parameters of each request
  work,     \* the local variables of each request
  pending   \* the writes of a Promise.all that have not been applied yet

vars == <<now, authz, tokens, pc, payload, work, pending>>

-----------------------------------------------------------------------------
(* Documents.  `granted` is the scope the user agreed to; `root` and `by`   *)
(* record where a token comes from: the code its chain of grants started   *)
(* with, and the request that minted it (None: the authorization endpoint). *)
(* A removed token keeps the reason of its removal as its state.            *)

TokenType == {"code", "access", "refresh"}
TokenState == {"unused", "live", "consumed", "dropped", "revoked", "expired"}

AuthorizationDoc ==
  [state : {"unused", "live", "expired"}, consent : BOOLEAN,
   scope : SUBSET Scope, granted : SUBSET Scope, expires_at : Nat]

TokenDoc ==
  [state : TokenState, type : TokenType, authorization : Authorization \cup {None},
   root : Token, by : Request \cup {None}, expires_at : Nat]

Kind == {"authorization_code", "refresh_token", "revoke", "introspect", "userinfo"}
GrantKind == {"authorization_code", "refresh_token"}

ASSUME KindsAssumption == Kinds \subseteq Kind
ASSUME NoneAssumption == None \notin (Token \cup Authorization \cup Request \cup Kind)

(* `authentic` stands for the credentials: the client_secret of client, or *)
(* exactly one of client_secret and a code_verifier that matches the       *)
(* challenge, and for a code the redirect_uri of its authorization.  The   *)
(* bearer of an access token names no client; scope is what it may read.   *)
(* `beside` is a second grant in the body of a grant request: the          *)
(* refresh_token beside a code, or the code beside a refresh_token.        *)
Payload == [kind : Kind, token : Token, beside : Token \cup {None},
            client : Client \cup {None}, authentic : BOOLEAN, scope : SUBSET Scope]

NoPayload == [kind |-> None]

Work == [authorization : Authorization \cup {None}, root : Token \cup {None},
         victim : Token \cup {None}, at : Nat]

NoWork == [authorization |-> None, root |-> None, victim |-> None, at |-> 0]

Write == {"access", "refresh", "extend", "token", "victim"}

Ended == {"ok", "invalid", "error", "crashed", "active", "inactive", "served"}
Running == {"narrow", "discard", "consume", "drop", "mint", "find", "delete", "describe", "claims"}

TypeOK ==
  /\ now \in Nat
  /\ authz \in [Authorization -> AuthorizationDoc]
  /\ tokens \in [Token -> TokenDoc]
  /\ pc \in [Request -> {"idle"} \cup Running \cup Ended]
  /\ payload \in [Request -> Payload \cup {NoPayload}]
  /\ work \in [Request -> Work]
  /\ pending \in [Request -> SUBSET Write]

Live(t) == tokens[t].state = "live"
LiveAuthorization(a) == authz[a].state = "live"

(* A token somebody can present: a code or front-channel token once it is  *)
(* issued, a token of the token endpoint once its response is sent.        *)
Known(t) ==
  /\ tokens[t].state # "unused"
  /\ tokens[t].by # None => pc[tokens[t].by] = "ok"

Init ==
  /\ now = 0
  /\ authz = [a \in Authorization |->
                [state |-> "unused", consent |-> FALSE, scope |-> {},
                 granted |-> {}, expires_at |-> 0]]
  /\ tokens = [t \in Token |->
                [state |-> "unused", type |-> "code", authorization |-> None,
                 root |-> t, by |-> None, expires_at |-> 0]]
  /\ pc = [r \in Request |-> "idle"]
  /\ payload = [r \in Request |-> NoPayload]
  /\ work = [r \in Request |-> NoWork]
  /\ pending = [r \in Request |-> {}]

-----------------------------------------------------------------------------
(* Time and MongoDB's TTL monitor.  No handler compares expires_at with    *)
(* the clock: a document counts until the monitor, which runs at its own   *)
(* pace, has removed it.                                                   *)

Tick ==
  /\ now < MaxTime
  /\ now' = now + 1
  /\ UNCHANGED <<authz, tokens, pc, payload, work, pending>>

ReapToken(t) ==
  /\ Live(t)
  /\ tokens[t].expires_at <= now
  /\ tokens' = [tokens EXCEPT ![t].state = "expired"]
  /\ UNCHANGED <<now, authz, pc, payload, work, pending>>

ReapAuthorization(a) ==
  /\ LiveAuthorization(a)
  /\ authz[a].expires_at <= now
  /\ authz' = [authz EXCEPT ![a].state = "expired"]
  /\ UNCHANGED <<now, tokens, pc, payload, work, pending>>

-----------------------------------------------------------------------------
(* What the authorization endpoint writes.                                 *)

CreateAuthorization(a, scope) ==
  /\ authz[a].state = "unused"
  /\ OpenId \in scope
  /\ authz' = [authz EXCEPT ![a] =
       [state |-> "live", consent |-> FALSE, scope |-> scope,
        granted |-> scope, expires_at |-> now + RefreshLife]]
  /\ UNCHANGED <<now, tokens, pc, payload, work, pending>>

Consent(a) ==
  /\ LiveAuthorization(a)
  /\ ~authz[a].consent
  /\ authz' = [authz EXCEPT ![a].consent = TRUE]
  /\ UNCHANGED <<now, tokens, pc, payload, work, pending>>

Issued == {t \in Token : tokens[t].state # "unused" /\ tokens[t].by = None}

RoomToIssue == Cardinality(Issued) < MaxIssued

(* generateId: an id nobody has used.  Ids are opaque, so it does not       *)
(* matter which one, and TLC need not try them all.                        *)
Fresh(t) ==
  /\ tokens[t].state = "unused"
  /\ t = CHOOSE u \in Token : tokens[u].state = "unused"

(* Fault: the schema has no default for expires_at.                        *)
DocumentWithoutExpiry(type, a, root, by, expires_at) ==
  [state |-> "live", type |-> type, authorization |-> a, root |-> root, by |-> by]

Document(type, a, root, by, expires_at) ==
  [state |-> "live", type |-> type, authorization |-> a, root |-> root,
   by |-> by, expires_at |-> expires_at]

IssueCode(a, t) ==
  /\ LiveAuthorization(a) /\ authz[a].consent
  /\ RoomToIssue
  /\ Fresh(t)
  /\ tokens' = [tokens EXCEPT ![t] = Document("code", a, t, None, now + CodeLife)]
  /\ UNCHANGED <<now, authz, pc, payload, work, pending>>

IssueFrontChannelToken(a, t) ==
  /\ LiveAuthorization(a) /\ authz[a].consent
  /\ RoomToIssue
  /\ Fresh(t)
  /\ tokens' = [tokens EXCEPT ![t] = Document("access", a, t, None, now + AccessLife)]
  /\ UNCHANGED <<now, authz, pc, payload, work, pending>>

-----------------------------------------------------------------------------
(* The token endpoint.  Validation reads the grant with its authorization  *)
(* and client (populate); nothing is locked, so what it found may be gone  *)
(* when the handler consumes the grant.                                    *)

Goto(r, label) == pc' = [pc EXCEPT ![r] = label]

AuthorizationOf(t) == tokens[t].authorization

(* The checks of validateAuthorization.                                    *)
ValidCode(p) ==
  /\ tokens[p.token].type = "code" /\ Live(p.token)
  /\ LiveAuthorization(AuthorizationOf(p.token))
  /\ authz[AuthorizationOf(p.token)].consent
  /\ ClientOf[AuthorizationOf(p.token)] = p.client
  /\ p.authentic

(* Fault: compareScope does not look for scopes that were not granted.     *)
ValidScopeOfAnySize(scope, granted) == scope = {} \/ OpenId \in scope

(* The scope parameter is absent, or passes compareScope.                  *)
ValidScope(scope, granted) ==
  scope = {} \/ (OpenId \in scope /\ scope \subseteq granted)

(* Fault: the refresh token of another client is accepted.                 *)
ValidRefreshTokenOfAnyClient(p) ==
  /\ tokens[p.token].type = "refresh" /\ Live(p.token)
  /\ LiveAuthorization(AuthorizationOf(p.token))
  /\ p.authentic
  /\ ValidScope(p.scope, authz[AuthorizationOf(p.token)].scope)

(* The checks of validateRefreshToken.                                     *)
ValidRefreshToken(p) ==
  /\ tokens[p.token].type = "refresh" /\ Live(p.token)
  /\ LiveAuthorization(AuthorizationOf(p.token))
  /\ ClientOf[AuthorizationOf(p.token)] = p.client
  /\ p.authentic
  /\ ValidScope(p.scope, authz[AuthorizationOf(p.token)].scope)

Reject(r) ==
  /\ Goto(r, "invalid")
  /\ UNCHANGED <<now, authz, tokens, payload, work, pending>>

Accept(r, p, label) ==
  /\ payload' = [payload EXCEPT ![r] = p]
  /\ Goto(r, label)
  /\ UNCHANGED <<now, authz, tokens, work, pending>>

(* A code that comes with a refresh token is deleted before it.            *)
FirstDeletion(p) == IF p.beside = None THEN "consume" ELSE "discard"

(* The grant beside the one that grant_type names is not looked at.        *)
ReceiveCodeGrant(r, p) ==
  IF ValidCode(p) THEN Accept(r, p, FirstDeletion(p)) ELSE Reject(r)

(* compareScope compares lengths: an equal number of scopes is no change.  *)
ReceiveRefreshGrant(r, p) ==
  IF ~ValidRefreshToken(p)
    THEN Reject(r)
    ELSE Accept(r, p,
           IF p.scope \in {{}, authz[AuthorizationOf(p.token)].scope}
             THEN FirstDeletion(p) ELSE "narrow")

(* The scope is written before the refresh token is consumed, whether or   *)
(* not this request will be the one to consume it.                         *)
NarrowScope(r) ==
  LET a == AuthorizationOf(payload[r].token) IN
  /\ pc[r] = "narrow"
  /\ authz' = IF LiveAuthorization(a)
                THEN [authz EXCEPT ![a].scope = payload[r].scope] ELSE authz
  /\ Goto(r, FirstDeletion(payload[r]))
  /\ UNCHANGED <<now, tokens, payload, work, pending>>

Remove(t, reason) == tokens' = [tokens EXCEPT ![t].state = reason]

(* What a request holds of the grant it consumed, read by the populate.    *)
Hold(r, t) ==
  work' = [work EXCEPT ![r] =
    [authorization |-> AuthorizationOf(t), root |-> tokens[t].root,
     victim |-> None, at |-> now]]

(* Of two grants in one body the refresh token decides: its authorization   *)
(* replaces the one that the code was found with.                          *)
CodeOnly(p) == p.kind = "authorization_code" /\ p.beside = None

Redeemed(r) ==
  IF payload[r].kind = "authorization_code" /\ payload[r].beside # None
    THEN payload[r].beside ELSE payload[r].token

RedeemedType(r) == IF CodeOnly(payload[r]) THEN "code" ELSE "refresh"

(* The code that is deleted for nothing.                                   *)
Discarded(r) ==
  IF payload[r].kind = "authorization_code" THEN payload[r].token ELSE payload[r].beside

(* Fault: the grant is deleted, but the one validation has read is used.   *)
FindsWhatWasValidated(t, type) == tokens[t].type = type

(* findByIdAndDelete of the model for a type of grants finds its document. *)
Finds(t, type) == Live(t) /\ tokens[t].type = type

Consumable(r, type) ==
  /\ pc[r] = "consume" /\ RedeemedType(r) = type
  /\ Finds(Redeemed(r), type)
  /\ LiveAuthorization(AuthorizationOf(Redeemed(r)))

(* The first if-block, when the second one follows.  Whether the code has  *)
(* an authorization any more does not matter.                              *)
DiscardCode(r) ==
  /\ pc[r] = "discard"
  /\ Finds(Discarded(r), "code")
  /\ Remove(Discarded(r), "consumed")
  /\ Goto(r, "consume")
  /\ UNCHANGED <<now, authz, payload, work, pending>>

ConsumeCode(r) ==
  /\ Consumable(r, "code")
  /\ Remove(Redeemed(r), "consumed")
  /\ Hold(r, Redeemed(r))
  /\ pending' = [pending EXCEPT ![r] = {"access", "refresh", "extend"}]
  /\ Goto(r, "mint")
  /\ UNCHANGED <<now, authz, payload>>

(* Fault: the refresh token is found, not found and deleted.               *)
ReadRefreshToken(r) ==
  /\ Consumable(r, "refresh")
  /\ Hold(r, Redeemed(r))
  /\ Goto(r, "drop")
  /\ UNCHANGED <<now, authz, tokens, payload, pending>>

ConsumeRefreshToken(r) ==
  /\ Consumable(r, "refresh")
  /\ Remove(Redeemed(r), "consumed")
  /\ Hold(r, Redeemed(r))
  /\ Goto(r, "drop")
  /\ UNCHANGED <<now, authz, payload, pending>>

(* findByIdAndDelete returned null, another request was faster or the      *)
(* second grant was none: the next line reads a property of null and the   *)
(* request is answered with a 500.                                         *)
ConsumeNothing(r) ==
  /\ \/ pc[r] = "discard" /\ ~Finds(Discarded(r), "code")
     \/ pc[r] = "consume" /\ ~Finds(Redeemed(r), RedeemedType(r))
  /\ Goto(r, "error")
  /\ UNCHANGED <<now, authz, tokens, payload, work, pending>>

(* The grant is deleted but populate finds no authorization: 500 as well.  *)
ConsumeOrphan(r) ==
  /\ pc[r] = "consume"
  /\ Finds(Redeemed(r), RedeemedType(r))
  /\ ~LiveAuthorization(AuthorizationOf(Redeemed(r)))
  /\ Remove(Redeemed(r), "consumed")
  /\ Goto(r, "error")
  /\ UNCHANGED <<now, authz, payload, work, pending>>

AccessTokensOf(a) ==
  {t \in Token : Live(t) /\ tokens[t].type = "access" /\ AuthorizationOf(t) = a}

(* Fault: the old access token stays.                                      *)
DropNothing(r) ==
  /\ pc[r] = "drop"
  /\ pending' = [pending EXCEPT ![r] = {"access", "refresh", "extend"}]
  /\ work' = [work EXCEPT ![r].at = now]
  /\ Goto(r, "mint")
  /\ UNCHANGED <<now, authz, tokens, payload>>

(* findOneAndDelete: some access token of the authorization, if any.  The  *)
(* Promise.all that follows starts its writes, and stamps them, at once.   *)
DropAccessToken(r) ==
  /\ pc[r] = "drop"
  /\ IF AccessTokensOf(work[r].authorization) = {}
       THEN UNCHANGED tokens
       ELSE \E t \in AccessTokensOf(work[r].authorization) : Remove(t, "dropped")
  /\ pending' = [pending EXCEPT ![r] = {"access", "refresh", "extend"}]
  /\ work' = [work EXCEPT ![r].at = now]
  /\ Goto(r, "mint")
  /\ UNCHANGED <<now, authz, payload>>

Applied(r, write) ==
  /\ write \in pending[r]
  /\ pending' = [pending EXCEPT ![r] = @ \ {write}]

(* Creating a token does not look the authorization up.                    *)
Mint(r, t, type, life) ==
  /\ Applied(r, type)
  /\ Fresh(t)
  /\ tokens' = [tokens EXCEPT ![t] =
       Document(type, work[r].authorization, work[r].root, r, work[r].at + life)]
  /\ UNCHANGED <<now, authz, pc, payload, work>>

MintAccessToken(r, t) == Mint(r, t, "access", AccessLife)
MintRefreshToken(r, t) == Mint(r, t, "refresh", RefreshLife)

(* Fault: the authorization keeps its first date of expiry.                *)
ExtendNothing(r) ==
  /\ Applied(r, "extend")
  /\ UNCHANGED <<now, authz, tokens, pc, payload, work>>

(* An update of a document that is gone matches nothing and succeeds.      *)
ExtendAuthorization(r) ==
  LET a == work[r].authorization IN
  /\ Applied(r, "extend")
  /\ authz' = IF LiveAuthorization(a)
                THEN [authz EXCEPT ![a].expires_at = work[r].at + RefreshLife]
                ELSE authz
  /\ UNCHANGED <<now, tokens, pc, payload, work>>

-----------------------------------------------------------------------------
(* Revocation and introspection share their validation.                    *)

(* fetchToken: an access or a refresh token, never a code.                 *)
Fetched(p) == Live(p.token) /\ tokens[p.token].type # "code"

(* The token and everything it needs is there and belongs to the client.   *)
ValidToken(p) ==
  /\ Fetched(p)
  /\ LiveAuthorization(AuthorizationOf(p.token))
  /\ ClientOf[AuthorizationOf(p.token)] = p.client

(* A request about a token that is not found is answered at once.          *)
ReceiveTokenRequest(r, p, unknown, label) ==
  \/ ~p.authentic /\ Reject(r)
  \/ p.authentic /\ ~Fetched(p) /\ Accept(r, p, unknown)
  \/ p.authentic /\ Fetched(p) /\ ~ValidToken(p) /\ Reject(r)
  \/ p.authentic /\ ValidToken(p) /\ Accept(r, p, label)

ReceiveRevocation(r, p) == ReceiveTokenRequest(r, p, "ok", "find")

(* Fault: a refresh token is revoked alone.                                *)
FindNoAccessToken(r) ==
  /\ pc[r] = "find"
  /\ work' = [work EXCEPT ![r] =
       [authorization |-> AuthorizationOf(payload[r].token),
        root |-> tokens[payload[r].token].root, victim |-> None, at |-> 0]]
  /\ pending' = [pending EXCEPT ![r] = {"token"}]
  /\ Goto(r, "delete")
  /\ UNCHANGED <<now, authz, tokens, payload>>

(* findOne: the access token that is to go with a refresh token.           *)
FindAccessToken(r) ==
  LET t == payload[r].token
      a == AuthorizationOf(t)
      found == IF tokens[t].type = "refresh" THEN AccessTokensOf(a) ELSE {}
  IN
  /\ pc[r] = "find"
  /\ \E v \in IF found = {} THEN {None} ELSE found :
       /\ work' = [work EXCEPT ![r] =
            [authorization |-> a, root |-> tokens[t].root, victim |-> v, at |-> 0]]
       /\ pending' = [pending EXCEPT ![r] =
            IF v = None THEN {"token"} ELSE {"token", "victim"}]
  /\ Goto(r, "delete")
  /\ UNCHANGED <<now, authz, tokens, payload>>

(* Deleting a document that is already gone succeeds.                      *)
Delete(r, write, t) ==
  /\ Applied(r, write)
  /\ IF Live(t) THEN Remove(t, "revoked") ELSE UNCHANGED tokens
  /\ UNCHANGED <<now, authz, pc, payload, work>>

DeleteToken(r) == Delete(r, "token", payload[r].token)
DeleteAccessToken(r) == Delete(r, "victim", work[r].victim)

ReceiveIntrospection(r, p) ==
  ReceiveTokenRequest(r, p, "inactive", "describe")

(* The answer describes the documents that validation has read.            *)
DescribeToken(r) ==
  /\ pc[r] = "describe"
  /\ Goto(r, IF tokens[payload[r].token].type = "access" THEN "active" ELSE "inactive")
  /\ UNCHANGED <<now, authz, tokens, payload, work, pending>>

-----------------------------------------------------------------------------
(* Userinfo: whoever bears an access token reads claims about its user.    *)

(* getClaims reads the token with its authorization ...                    *)
ReceiveBearer(r, t) ==
  IF Live(t) /\ tokens[t].type = "access" /\ LiveAuthorization(AuthorizationOf(t))
    THEN Accept(r, [kind |-> "userinfo", token |-> t, beside |-> None, client |-> None,
                    authentic |-> TRUE, scope |-> authz[AuthorizationOf(t)].scope], "claims")
    ELSE Reject(r)

(* ... and then, with the scope it found there, the user.                  *)
ServeClaims(r) ==
  /\ pc[r] = "claims"
  /\ Goto(r, "served")
  /\ UNCHANGED <<now, authz, tokens, payload, work, pending>>

-----------------------------------------------------------------------------
(* Answers and failures.                                                   *)

(* Fault: the Promise.all is not awaited.                                  *)
RespondAtOnce(r) ==
  /\ pc[r] \in {"mint", "delete"}
  /\ Goto(r, "ok")
  /\ UNCHANGED <<now, authz, tokens, payload, work, pending>>

(* Fault: the response of a revocation is not ended.                       *)
RespondToGrants(r) ==
  /\ pc[r] = "mint"
  /\ pending[r] = {}
  /\ Goto(r, "ok")
  /\ UNCHANGED <<now, authz, tokens, payload, work, pending>>

Respond(r) ==
  /\ pc[r] \in {"mint", "delete"}
  /\ pending[r] = {}
  /\ Goto(r, "ok")
  /\ UNCHANGED <<now, authz, tokens, payload, work, pending>>

(* A database call, or the signing of the id_token, throws.                *)
Fail(r) ==
  /\ \/ pc[r] \in {"narrow", "discard", "consume", "drop", "find", "claims"}
     \/ pc[r] = "mint" /\ pending[r] = {}
  /\ Goto(r, "error")
  /\ UNCHANGED <<now, authz, tokens, payload, work, pending>>

(* One write of a Promise.all is rejected: the request is answered with an *)
(* error, the writes that were started with it are applied or fail later.  *)
FailWrite(r, write) ==
  /\ Applied(r, write)
  /\ Goto(r, "error")
  /\ UNCHANGED <<now, authz, tokens, payload, work>>

(* The process, or the function instance, that serves the request dies.    *)
Crash(r) ==
  /\ pc[r] \in Running
  /\ Goto(r, "crashed")
  /\ pending' = [pending EXCEPT ![r] = {}]
  /\ UNCHANGED <<now, authz, tokens, payload, work>>

-----------------------------------------------------------------------------
(* A second grant is one of the other type, or something that is none, for *)
(* which the first one may stand.                                          *)
Second(t, type) == {u \in Token : u = t \/ (Known(u) /\ tokens[u].type = type)} \cup {None}

Receive(r) ==
  /\ pc[r] = "idle"
  /\ \E t \in Token, kind \in Kinds, client \in Client, authentic \in BOOLEAN :
       LET Params(beside, scope) ==
             [kind |-> kind, token |-> t, beside |-> beside, client |-> client,
              authentic |-> authentic, scope |-> scope]
       IN
       /\ Known(t)
       /\ \/ kind = "authorization_code" /\ \E beside \in Second(t, "refresh") :
               ReceiveCodeGrant(r, Params(beside, {}))
          \/ kind = "refresh_token" /\ \E beside \in Second(t, "code"), scope \in SUBSET Scope :
               ReceiveRefreshGrant(r, Params(beside, scope))
          \/ kind = "revoke" /\ ReceiveRevocation(r, Params(None, {}))
          \/ kind = "introspect" /\ ReceiveIntrospection(r, Params(None, {}))
          \/ kind = "userinfo" /\ ReceiveBearer(r, t)

(* What the code does next for a request once it has arrived.              *)
Proceed(r) ==
  \/ NarrowScope(r)
  \/ DiscardCode(r) \/ ConsumeCode(r) \/ ConsumeRefreshToken(r) 
  \/ ConsumeNothing(r) \/ ConsumeOrphan(r)
  \/ DropAccessToken(r)
  \/ \E t \in Token : MintAccessToken(r, t) \/ MintRefreshToken(r, t)
  \/ ExtendAuthorization(r)
  \/ FindAccessToken(r) \/ DeleteToken(r) \/ DeleteAccessToken(r)
  \/ DescribeToken(r) \/ ServeClaims(r)
  \/ Respond(r)

Disturb(r) == Fail(r) \/ Crash(r) \/ \E write \in Write : FailWrite(r, write)

Issue(a) ==
  \/ \E scope \in SUBSET Scope : CreateAuthorization(a, scope)
  \/ Consent(a)
  \/ \E t \in Token : IssueCode(a, t) \/ IssueFrontChannelToken(a, t)

Reap ==
  \/ \E t \in Token : ReapToken(t)
  \/ \E a \in Authorization : ReapAuthorization(a)

Next ==
  \/ Tick
  \/ Reap
  \/ \E a \in Authorization : Issue(a)
  \/ \E r \in Request : Receive(r) \/ Proceed(r) \/ Disturb(r)

Spec == Init /\ [][Next]_vars

(* Every promise settles: a request that has arrived goes on.  Nothing     *)
(* forces time, the TTL monitor, users or clients to act.                  *)
FairSpec == Spec /\ \A r \in Request : WF_vars(Proceed(r))

-----------------------------------------------------------------------------
(* Properties.                                                             *)

(* The grants that can still yield tokens of the chain that code c started *)
Redeemable(t, c) ==
  Live(t) /\ tokens[t].type \in {"code", "refresh"} /\ tokens[t].root = c

(* ... and the requests that have consumed one and owe its successor.      *)
Redeeming(r, c) ==
  work[r].root = c /\ (pc[r] = "drop" \/ "refresh" \in pending[r])

(* The grants of every code, as the chains of GrantChain: what it says of   *)
(* them holds of the documents and requests here.                          *)
GrantRequests == {r \in Request : payload[r].kind \in GrantKind}

HasMinted(r, type) ==
  \E t \in Token : tokens[t].state # "unused" /\ tokens[t].by = r /\ tokens[t].type = type

Chain == INSTANCE GrantChain WITH
  Chain <- Token,
  started <- {c \in Token : tokens[c].state # "unused" /\ tokens[c].type = "code"},
  grants <- {tokens[t].root : t \in {u \in Token : Redeemable(u, tokens[u].root)}},
  held <- {[chain |-> work[r].root, by |-> r] : r \in {q \in Request : Redeeming(q, work[q].root)}},
  used <- {r \in GrantRequests : work[r].root # None},
  returned <- {r \in Request : HasMinted(r, "refresh")},
  served <- {r \in GrantRequests : pc[r] = "ok"}

(* The chain of grants a code starts has one grant at a time, a request    *)
(* continues at most one chain, also when it deletes the grants of two, and*)
(* is served only once it has returned the next grant, and a chain whose   *)
(* grant was revoked, expired, lost or deleted for nothing never comes     *)
(* back, not even through a request that validated its grant long before   *)
(* (findByIdAndDelete, then Promise.all, in token/index.ts).               *)
ChainPromise == Chain!Spec

(* A code, and each refresh token after it, is redeemed at most once: the  *)
(* chain of grants a code starts never forks, whatever requests race, fail *)
(* or crash, although validation and consumption are separate steps        *)
(* (findByIdAndDelete in token/index.ts).                                  *)
NoForkedSession ==
  \A c \in Token :
    /\ \A t \in Token : Redeemable(t, c) => \A u \in Token : Redeemable(u, c) => t = u
    /\ \A r \in Request : Redeeming(r, c) =>
         /\ \A q \in Request : Redeeming(q, c) => r = q
         /\ \A t \in Token : ~Redeemable(t, c)

Codes(a) ==
  {t \in Token : tokens[t].state # "unused" /\ tokens[t].type = "code"
                   /\ AuthorizationOf(t) = a}

(* One authorization code and no token from the authorization endpoint: the *)
(* code flow, when the browser did not submit the authorization twice.     *)
PlainCodeFlow(a) ==
  /\ \E c \in Token : Codes(a) = {c}
  /\ \A t \in Issued : AuthorizationOf(t) = a => tokens[t].type = "code"

(* In the plain code flow an authorization never has two access tokens at  *)
(* a time: the refresh grant drops the old one before it creates the next, *)
(* and no failure in between leaves a chain that can mint a second one.    *)
OneAccessToken ==
  \A a \in Authorization :
    PlainCodeFlow(a) => \A t, u \in AccessTokensOf(a) : t = u

(* A request that found its refresh token and has removed it with success  *)
(* leaves nothing of a plain code flow usable, nor about to be created.    *)
RevokedSessionIsDead ==
  \A r \in Request :
    /\ pc[r] = "ok" /\ payload[r].kind = "revoke" /\ work[r].root # None
    /\ tokens[payload[r].token].type = "refresh"
    /\ tokens[payload[r].token].state = "revoked"
    /\ PlainCodeFlow(work[r].authorization)
    => /\ AccessTokensOf(work[r].authorization) = {}
       /\ \A t \in Token : ~Redeemable(t, work[r].root)
       /\ \A q \in Request : ~Redeeming(q, work[r].root)

(* Narrowing is computed from a scope that another request may have just   *)
(* changed; even so an authorization never gets a scope the user did not   *)
(* grant, and never loses openid (compareScope in token/validator.ts).     *)
ScopeWithinGrant ==
  \A a \in Authorization : authz[a].state # "unused" =>
    OpenId \in authz[a].scope /\ authz[a].scope \subseteq authz[a].granted

(* Once a revocation is answered with success, no request that arrives     *)
(* later is served with the token it was about, whether it redeems it,     *)
(* reads claims or introspects it: every read of it comes after the answer *)
(* and so after the deletion (awaited in revocation.ts).                   *)
RevokedTokenIsRefused ==
  [][\A q, r \in Request :
       /\ pc[q] = "ok" /\ payload[q].kind = "revoke"
       /\ tokens[payload[q].token].type # "code"
       /\ payload[r] = NoPayload /\ payload'[r] # NoPayload
       /\ payload'[r].token = payload[q].token
       => pc'[r] \in {"ok", "inactive"}]_vars

(* A token response is sent only when both of its tokens were stored, for  *)
(* the authorization of the grant that was redeemed, and every grant that  *)
(* the request named was consumed: one that was revoked, had expired or    *)
(* was redeemed by another request in the meantime yields no answer.       *)
AnswersAreComplete ==
  \A r \in Request :
    pc[r] = "ok" /\ r \in GrantRequests =>
      /\ \A type \in {"access", "refresh"} : \E t \in Token :
           /\ tokens[t].state # "unused" /\ tokens[t].by = r /\ tokens[t].type = type
           /\ AuthorizationOf(t) = AuthorizationOf(Redeemed(r))
      /\ \A t \in {payload[r].token, payload[r].beside} \ {None} :
           tokens[t].state = "consumed"

(* The tokens a request disposes of by naming a second grant, which nobody *)
(* has compared with its client: that grant, and an access token that goes *)
(* with it.                                                                *)
NamedBeside(r, t) ==
  /\ payload[r].kind \in GrantKind /\ payload[r].beside # None
  /\ \/ t = payload[r].beside
     \/ tokens[t].type = "access" /\ AuthorizationOf(t) = AuthorizationOf(payload[r].beside)

(* A grant or token is removed only once it has expired, or by a request   *)
(* whose client was authenticated; and unless that request has named it    *)
(* beside the grant it was validated for, by a request of its own client   *)
(* (client checks in validator.ts, the two if-blocks in token/index.ts).   *)
OnlyOwnerOrBearerRemoves ==
  [][\A t \in Token : Live(t) /\ ~Live(t)' =>
       \/ tokens[t].expires_at <= now
       \/ \E r \in Request :
            /\ payload[r].kind # None
            /\ payload[r].authentic
            /\ payload[r].client = ClientOf[AuthorizationOf(t)] \/ NamedBeside(r, t)
            /\ pc[r] # pc'[r] \/ pending[r] # pending'[r]]_vars

(* When MongoDB removes an authorization of the plain code flow, no client *)
(* holds an unexpired refresh token of it: the token endpoint extends the  *)
(* authorization with every refresh token it hands out.                    *)
AuthorizationOutlivesSession ==
  [][\A a \in Authorization :
       LiveAuthorization(a) /\ ~LiveAuthorization(a)' /\ PlainCodeFlow(a) =>
         \A t \in Token :
           Live(t) /\ Known(t) /\ tokens[t].type = "refresh" /\ AuthorizationOf(t) = a
             => tokens[t].expires_at <= now]_vars

(* Every request that arrives is answered, unless its process dies, and    *)
(* the writes it started settle.                                           *)
EveryRequestAnswered ==
  \A r \in Request : pc[r] # "idle" ~> pc[r] \in Ended /\ pending[r] = {}

(* "revokes refresh token and access token at once": what the test of the  *)
(* revocation endpoint says of a refresh token whose revocation succeeded. *)
RevokedWithAccessToken ==
  \A r \in Request :
    /\ pc[r] = "ok" /\ payload[r].kind = "revoke"
    /\ tokens[payload[r].token].type = "refresh"
    /\ tokens[payload[r].token].state = "revoked"
    => AccessTokensOf(AuthorizationOf(payload[r].token)) = {}

=============================================================================
