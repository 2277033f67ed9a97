---------------------------- MODULE TokensProofs ----------------------------
(***************************************************************************)
(* Theorems about Tokens, for every set of authorizations, tokens,         *)
(* requests and clients and for every lifetime.                            *)
(***************************************************************************)
EXTENDS Tokens, TLAPS

(* The type invariant is not inductive: a step uses its request's local    *)
(* variables as ids.  They are ids because of where the request is.        *)
HoldsItsData(r) ==
  /\ pc[r] \in Running \/ pending[r] # {} => payload[r] \in Payload
  /\ pc[r] = "drop" \/ pending[r] \cap {"access", "refresh", "extend"} # {} =>
       work[r].root \in Token /\ work[r].authorization \in Authorization
  /\ "victim" \in pending[r] => work[r].victim \in Token
  /\ pc[r] = "discard" => payload[r].beside \in Token
  /\ pc[r] \in {"idle", "narrow", "discard", "consume", "drop", "find", "describe", "claims"} =>
       pending[r] = {}

Bookkeeping ==
  /\ \A t \in Token :
       tokens[t].state # "unused" => tokens[t].authorization \in Authorization
  /\ \A r \in Request : HoldsItsData(r)

Shape == TypeOK /\ Bookkeeping

(* A document that is created has the type of documents.                   *)
LEMMA DocumentType ==
  ASSUME NEW type \in TokenType, NEW a \in Authorization, NEW root \in Token,
         NEW by \in Request \cup {None}, NEW e \in Nat
  PROVE  /\ Document(type, a, root, by, e) \in TokenDoc
         /\ Document(type, a, root, by, e).authorization = a
BY DEF Document, TokenDoc, TokenState

(* Removing a document changes its state and nothing else.                 *)
LEMMA RemoveType ==
  ASSUME Shape, NEW t \in Token, NEW reason \in TokenState \ {"unused"},
         Live(t), Remove(t, reason)
  PROVE  /\ tokens' \in [Token -> TokenDoc]
         /\ \A u \in Token : /\ tokens'[u].authorization = tokens[u].authorization
                             /\ tokens'[u].root = tokens[u].root
                             /\ tokens'[u].type = tokens[u].type
                             /\ u # t => tokens'[u] = tokens[u]
         /\ \A u \in Token : tokens'[u].state = "unused" <=> tokens[u].state = "unused"
         /\ tokens'[t].state = reason
BY DEF Shape, TypeOK, TokenDoc, TokenState, Live, Remove

LEMMA InitShape == Init => Shape
BY DEF Init, Shape, TypeOK, Bookkeeping, HoldsItsData, AuthorizationDoc, TokenDoc,
       TokenState, TokenType, Work, NoWork, Running, NoPayload

(* Steps of the environment. *)
LEMMA IssueShape ==
  ASSUME Shape, Tick \/ Reap \/ \E a \in Authorization : Issue(a)
  PROVE  Shape'
<1>1. CASE Tick
  BY <1>1 DEF Tick, Shape, TypeOK, Bookkeeping, HoldsItsData
<1>2. ASSUME NEW t \in Token, ReapToken(t)
      PROVE  Shape'
  BY <1>2 DEF ReapToken, Live, Shape, TypeOK, TokenDoc, TokenState, Bookkeeping, HoldsItsData
<1>3. ASSUME NEW a \in Authorization, ReapAuthorization(a)
      PROVE  Shape'
  BY <1>3 DEF ReapAuthorization, Shape, TypeOK, AuthorizationDoc, Bookkeeping, HoldsItsData
<1>4. ASSUME NEW a \in Authorization, NEW scope \in SUBSET Scope, CreateAuthorization(a, scope)
      PROVE  Shape'
  <2>1. authz' \in [Authorization -> AuthorizationDoc]
    BY <1>4, LifetimeAssumption DEF CreateAuthorization, Shape, TypeOK, AuthorizationDoc
  <2>2. UNCHANGED <<now, tokens, pc, payload, work, pending>>
    BY <1>4 DEF CreateAuthorization
  <2> QED
    BY <2>1, <2>2 DEF Shape, TypeOK, Bookkeeping, HoldsItsData
<1>5. ASSUME NEW a \in Authorization, Consent(a)
      PROVE  Shape'
  <2>1. authz' \in [Authorization -> AuthorizationDoc]
    <3>1. authz[a] \in AuthorizationDoc
      BY DEF Shape, TypeOK
    <3>2. [authz[a] EXCEPT !.consent = TRUE] \in AuthorizationDoc
      BY <3>1 DEF AuthorizationDoc
    <3> QED
      BY <1>5, <3>2 DEF Consent, Shape, TypeOK
  <2>2. UNCHANGED <<now, tokens, pc, payload, work, pending>>
    BY <1>5 DEF Consent
  <2> QED
    BY <2>1, <2>2 DEF Shape, TypeOK, Bookkeeping, HoldsItsData
<1>6. ASSUME NEW a \in Authorization, NEW t \in Token, IssueCode(a, t)
      PROVE  Shape'
  <2>1. Document("code", a, t, None, now + CodeLife) \in TokenDoc
    <3>1. now + CodeLife \in Nat
      BY LifetimeAssumption DEF Shape, TypeOK
    <3>2. "code" \in TokenType
      BY DEF TokenType
    <3> QED
      BY <3>1, <3>2, DocumentType
  <2>2. Document("code", a, t, None, now + CodeLife).authorization = a
    BY DEF Document
  <2> QED
    BY <1>6, <2>1, <2>2 DEF IssueCode, Shape, TypeOK, Bookkeeping, HoldsItsData
<1>7. ASSUME NEW a \in Authorization, NEW t \in Token, IssueFrontChannelToken(a, t)
      PROVE  Shape'
  <2>1. Document("access", a, t, None, now + AccessLife) \in TokenDoc
    <3>1. now + AccessLife \in Nat
      BY LifetimeAssumption DEF Shape, TypeOK
    <3>2. "access" \in TokenType
      BY DEF TokenType
    <3> QED
      BY <3>1, <3>2, DocumentType
  <2>2. Document("access", a, t, None, now + AccessLife).authorization = a
    BY DEF Document
  <2> QED
    BY <1>7, <2>1, <2>2 DEF IssueFrontChannelToken, Shape, TypeOK, Bookkeeping, HoldsItsData
<1> QED
  BY <1>1, <1>2, <1>3, <1>4, <1>5, <1>6, <1>7 DEF Reap, Issue

(* Steps of a request that has just arrived. *)
LEMMA AnswerShape ==
  ASSUME Shape, NEW r \in Request, pc[r] = "idle", NEW p \in Payload,
         NEW label \in Running \cup Ended, label # "drop",
         label = "discard" => p.beside \in Token,
         Reject(r) \/ Accept(r, p, label)
  PROVE  Shape'
<1>1. CASE Reject(r)
  BY <1>1 DEF Reject, Goto, Shape, TypeOK, Ended, Running, Bookkeeping, HoldsItsData
<1>2. CASE Accept(r, p, label)
  BY <1>2 DEF Accept, Goto, Shape, TypeOK, Ended, Running, Bookkeeping, HoldsItsData
<1> QED
  BY <1>1, <1>2

(* Where a request of each kind can be when it has been received.          *)
Reached(kind) ==
  IF kind \in GrantKind THEN {"discard", "consume", "narrow"}
  ELSE {"ok", "find", "inactive", "describe", "claims"}

LEMMA ReceiveAnswers ==
  ASSUME Shape, NEW r \in Request, Receive(r)
  PROVE  /\ pc[r] = "idle"
         /\ \E p \in Payload : \E label \in Reached(p.kind) :
              /\ Known(p.token) /\ tokens[p.token].state # "unused"
              /\ p.beside \in Token => Known(p.beside) /\ tokens[p.beside].state # "unused"
              /\ label = "discard" => p.beside \in Token
              /\ Reject(r) \/ Accept(r, p, label)
<1> DEFINE P(t, kind, beside, client, authentic, scope) ==
             [kind |-> kind, token |-> t, beside |-> beside, client |-> client,
              authentic |-> authentic, scope |-> scope]
<1>0. PICK t \in Token, kind \in Kind, client \in Client, authentic \in BOOLEAN :
        /\ Known(t)
        /\ \/ /\ kind = "authorization_code"
              /\ \E beside \in Second(t, "refresh") :
                   ReceiveCodeGrant(r, P(t, kind, beside, client, authentic, {}))
           \/ /\ kind = "refresh_token"
              /\ \E beside \in Second(t, "code"), scope \in SUBSET Scope :
                   ReceiveRefreshGrant(r, P(t, kind, beside, client, authentic, scope))
           \/ kind = "revoke" /\ ReceiveRevocation(r, P(t, kind, None, client, authentic, {}))
           \/ kind = "introspect" /\ ReceiveIntrospection(r, P(t, kind, None, client, authentic, {}))
           \/ kind = "userinfo" /\ ReceiveBearer(r, t)
  BY KindsAssumption DEF Receive
<1> HIDE DEF P
<1> DEFINE Used(b) == Known(b) /\ tokens[b].state # "unused"
<1>1. PICK scope \in SUBSET Scope, beside \in {b \in Token \cup {None} : b \in Token => Used(b)} :
        \/ /\ kind = "authorization_code"
           /\ ReceiveCodeGrant(r, P(t, kind, beside, client, authentic, scope))
        \/ /\ kind = "refresh_token"
           /\ ReceiveRefreshGrant(r, P(t, kind, beside, client, authentic, scope))
        \/ /\ kind = "revoke"
           /\ ReceiveRevocation(r, P(t, kind, beside, client, authentic, scope))
        \/ /\ kind = "introspect"
           /\ ReceiveIntrospection(r, P(t, kind, beside, client, authentic, scope))
        \/ ReceiveBearer(r, t)
  <2>1. {} \in SUBSET Scope /\ None \in {b \in Token \cup {None} : b \in Token => Used(b)}
    BY NoneAssumption
  <2>2. ASSUME NEW type PROVE Second(t, type) \subseteq {b \in Token \cup {None} : b \in Token => Used(b)}
    BY <1>0, NoneAssumption DEF Second, Known
  <2> HIDE DEF Used
  <2> QED
    BY <1>0, <2>1, <2>2
<1> DEFINE p == P(t, kind, beside, client, authentic, scope)
           b == [kind |-> "userinfo", token |-> t, beside |-> None, client |-> None,
                 authentic |-> TRUE, scope |-> authz[AuthorizationOf(t)].scope]
<1>2. /\ p \in Payload /\ p.token = t /\ p.kind = kind
      /\ p.beside \in Token => Known(p.beside) /\ tokens[p.beside].state # "unused"
  BY DEF P, Payload
<1>3. Known(t) /\ tokens[t].state # "unused"
  BY <1>0 DEF Known
<1>4. CASE ReceiveBearer(r, t)
  <2>1. CASE Reject(r)
    <3>1. PICK label \in Reached(p.kind) : label # "discard"
      BY DEF Reached
    <3> QED
      BY <1>2, <1>3, <2>1, <3>1 DEF Receive
  <2>2. CASE Accept(r, b, "claims")
    <3>1. AuthorizationOf(t) \in Authorization
      BY <1>3 DEF AuthorizationOf, Shape, Bookkeeping
    <3>2. b \in Payload /\ b.token = t /\ b.kind = "userinfo" /\ b.beside \notin Token
      BY <3>1, NoneAssumption DEF Payload, Kind, Shape, TypeOK, AuthorizationDoc
    <3>3. "claims" \in Reached(b.kind)
      BY <3>2 DEF Reached, GrantKind
    <3> HIDE DEF b
    <3> QED
      BY <1>3, <2>2, <3>2, <3>3 DEF Receive
  <2> QED
    BY <1>4, <2>1, <2>2 DEF ReceiveBearer
<1>5. CASE ~ReceiveBearer(r, t)
  <2> HIDE DEF p
  <2>1. \/ p.kind = "authorization_code" /\ ReceiveCodeGrant(r, p)
        \/ p.kind = "refresh_token" /\ ReceiveRefreshGrant(r, p)
        \/ p.kind = "revoke" /\ ReceiveRevocation(r, p)
        \/ p.kind = "introspect" /\ ReceiveIntrospection(r, p)
    BY <1>1, <1>2, <1>5 DEF p
  <2>2. FirstDeletion(p) = "consume" \/ (FirstDeletion(p) = "discard" /\ p.beside \in Token)
    BY <1>2 DEF FirstDeletion, Payload
  <2>3. CASE p.kind \in GrantKind
    <3>1. \/ Reject(r) \/ Accept(r, p, "narrow")
          \/ Accept(r, p, FirstDeletion(p))
      BY <2>1, <2>3 DEF ReceiveCodeGrant, ReceiveRefreshGrant, GrantKind
    <3>2. Reached(p.kind) = {"discard", "consume", "narrow"}
      BY <2>3 DEF Reached
    <3> QED
      BY <1>2, <1>3, <2>2, <3>1, <3>2 DEF Receive
  <2>4. CASE p.kind \notin GrantKind
    <3>1. \E label \in {"ok", "find", "inactive", "describe", "claims"} :
            Reject(r) \/ Accept(r, p, label)
      BY <2>1, <2>4 DEF ReceiveRevocation, ReceiveIntrospection, ReceiveTokenRequest, GrantKind
    <3>2. Reached(p.kind) = {"ok", "find", "inactive", "describe", "claims"}
      BY <2>4 DEF Reached
    <3> QED
      BY <1>2, <1>3, <3>1, <3>2 DEF Receive
  <2> QED
    BY <2>3, <2>4
<1> QED
  BY <1>4, <1>5

LEMMA ReceiveShape ==
  ASSUME Shape, NEW r \in Request, Receive(r)
  PROVE  Shape'
<1>1. PICK p \in Payload : \E label \in Reached(p.kind) :
        /\ label = "discard" => p.beside \in Token
        /\ Reject(r) \/ Accept(r, p, label)
  BY ReceiveAnswers
<1>2. Reached(p.kind) \subseteq Running \cup Ended /\ "drop" \notin Reached(p.kind)
  BY DEF Running, Ended, Reached
<1> QED
  BY <1>1, <1>2, ReceiveAnswers, AnswerShape

(* What a request names is what it redeems and what it discards.           *)
LEMMA NamedAreTokens ==
  ASSUME NEW r \in Request, payload[r] \in Payload
  PROVE  /\ payload[r].token \in Token /\ Redeemed(r) \in Token
         /\ payload[r].beside # None => Discarded(r) \in Token
         /\ {payload[r].token, payload[r].beside} \ {None} =
              IF payload[r].beside = None THEN {Redeemed(r)} ELSE {Redeemed(r), Discarded(r)}
BY NoneAssumption DEF Payload, Redeemed, Discarded

(* The grants that the next deletion looks for.                            *)
LEMMA GrantsAreTokens ==
  ASSUME Shape, NEW r \in Request
  PROVE  /\ pc[r] = "consume" => Redeemed(r) \in Token
         /\ pc[r] = "discard" => Discarded(r) \in Token
BY DEF Shape, Bookkeeping, HoldsItsData, Running, Payload, Redeemed, Discarded

(* Steps of the handlers. *)
LEMMA ProceedShape ==
  ASSUME Shape, NEW r \in Request, Proceed(r)
  PROVE  Shape'
<1> USE DEF Goto, Shape, TypeOK
<1>1. CASE NarrowScope(r)
  <2>1. payload[r].scope \in SUBSET Scope
    BY <1>1 DEF NarrowScope, Bookkeeping, HoldsItsData, Running, Payload
  <2>2. authz' \in [Authorization -> AuthorizationDoc]
    <3>1. \A a \in Authorization : [authz[a] EXCEPT !.scope = payload[r].scope] \in AuthorizationDoc
      BY <2>1 DEF AuthorizationDoc
    <3> QED
      BY <1>1, <3>1 DEF NarrowScope
  <2>3. /\ pc[r] = "narrow" /\ pc' = [pc EXCEPT ![r] = FirstDeletion(payload[r])]
        /\ UNCHANGED <<now, tokens, payload, work, pending>>
    BY <1>1 DEF NarrowScope
  <2>4. /\ FirstDeletion(payload[r]) \in {"consume", "discard"}
        /\ FirstDeletion(payload[r]) = "discard" => payload[r].beside \in Token
    BY <1>1 DEF NarrowScope, FirstDeletion, Bookkeeping, HoldsItsData, Running, Payload
  <2>5. TypeOK'
    BY <2>2, <2>3, <2>4 DEF Running
  <2>6. Bookkeeping'
    BY <2>3, <2>4 DEF Running, Bookkeeping, HoldsItsData
  <2> QED
    BY <2>5, <2>6
<1>2. ASSUME NEW type, Consumable(r, type)
      PROVE  /\ Redeemed(r) \in Token
             /\ AuthorizationOf(Redeemed(r)) \in Authorization
             /\ tokens[Redeemed(r)].root \in Token
  BY <1>2, GrantsAreTokens
     DEF Consumable, Finds, Live, AuthorizationOf, Bookkeeping, TokenDoc
<1>3. ASSUME NEW type, Consumable(r, type), Hold(r, Redeemed(r))
      PROVE  /\ work' \in [Request -> Work]
             /\ \A q \in Request : q # r => work'[q] = work[q]
             /\ work'[r].root \in Token /\ work'[r].authorization \in Authorization
  BY <1>2, <1>3 DEF Hold, Work
<1>4. CASE ConsumeCode(r)
  <2>1. tokens' \in [Token -> TokenDoc]
    BY <1>2, <1>4, RemoveType DEF ConsumeCode, Consumable, Finds, TokenState
  <2>2. \A t \in Token : tokens'[t].state # "unused" => tokens'[t].authorization \in Authorization
    BY <1>2, <1>4, RemoveType DEF ConsumeCode, Consumable, Finds, TokenState, Bookkeeping
  <2>3. work' \in [Request -> Work]
    BY <1>3, <1>4 DEF ConsumeCode
  <2>4. \A q \in Request : HoldsItsData(q)'
    BY <1>3, <1>4 DEF ConsumeCode, Consumable, Running, Bookkeeping, HoldsItsData
  <2> QED
    BY <1>4, <2>1, <2>2, <2>3, <2>4 DEF ConsumeCode, Write, Running, Bookkeeping
<1>5. CASE ConsumeRefreshToken(r)
  <2>1. tokens' \in [Token -> TokenDoc]
    BY <1>2, <1>5, RemoveType DEF ConsumeRefreshToken, Consumable, Finds, TokenState
  <2>2. \A t \in Token : tokens'[t].state # "unused" => tokens'[t].authorization \in Authorization
    BY <1>2, <1>5, RemoveType DEF ConsumeRefreshToken, Consumable, Finds, TokenState, Bookkeeping
  <2>3. work' \in [Request -> Work]
    BY <1>3, <1>5 DEF ConsumeRefreshToken
  <2>4. \A q \in Request : HoldsItsData(q)'
    BY <1>3, <1>5 DEF ConsumeRefreshToken, Consumable, Running, Bookkeeping, HoldsItsData
  <2> QED
    BY <1>5, <2>1, <2>2, <2>3, <2>4 DEF ConsumeRefreshToken, Running, Bookkeeping
<1>6. CASE ConsumeNothing(r)
  BY <1>6 DEF ConsumeNothing, Ended, Running, Bookkeeping, HoldsItsData
<1>7. CASE ConsumeOrphan(r)
  <2>1. Redeemed(r) \in Token
    BY <1>7, GrantsAreTokens DEF ConsumeOrphan
  <2>2. /\ tokens' \in [Token -> TokenDoc]
        /\ \A t \in Token : tokens'[t].state # "unused" => tokens'[t].authorization \in Authorization
    BY <1>7, <2>1, RemoveType DEF ConsumeOrphan, Finds, TokenState, Bookkeeping
  <2> QED
    BY <1>7, <2>2 DEF ConsumeOrphan, Ended, Running, Bookkeeping, HoldsItsData
<1>8. CASE DropAccessToken(r)
  <2>1. /\ tokens' \in [Token -> TokenDoc]
        /\ \A t \in Token : tokens'[t].state # "unused" => tokens'[t].authorization \in Authorization
    BY <1>8, RemoveType DEF DropAccessToken, AccessTokensOf, TokenState, Bookkeeping
  <2>2. /\ work' \in [Request -> Work]
        /\ \A q \in Request : /\ work'[q].root = work[q].root
                              /\ work'[q].authorization = work[q].authorization
                              /\ work'[q].victim = work[q].victim
    BY <1>8 DEF DropAccessToken, Work
  <2> QED
    BY <1>8, <2>1, <2>2 DEF DropAccessToken, Write, Running, Bookkeeping, HoldsItsData
<1>9. ASSUME NEW t \in Token, NEW type \in {"access", "refresh"}, NEW life \in Nat,
             Mint(r, t, type, life)
      PROVE  Shape'
  <2> DEFINE d == Document(type, work[r].authorization, work[r].root, r, work[r].at + life)
  <2>1. work[r].root \in Token /\ work[r].authorization \in Authorization
    BY <1>9 DEF Mint, Applied, Bookkeeping, HoldsItsData
  <2>2. work[r].at + life \in Nat
    BY DEF Work
  <2>3. d \in TokenDoc /\ d.authorization \in Authorization
    <3>1. type \in TokenType /\ r \in Request \cup {None}
      BY DEF TokenType
    <3> QED
      BY <2>1, <2>2, <3>1, DocumentType
  <2> HIDE DEF d
  <2>4. tokens' = [tokens EXCEPT ![t] = d]
    BY <1>9 DEF Mint, d
  <2> QED
    BY <1>9, <2>3, <2>4 DEF Mint, Applied, Running, Bookkeeping, HoldsItsData
<1>10. ASSUME NEW t \in Token, MintAccessToken(r, t) \/ MintRefreshToken(r, t)
       PROVE  Shape'
  BY <1>9, <1>10, LifetimeAssumption DEF MintAccessToken, MintRefreshToken
<1>11. CASE ExtendAuthorization(r)
  <2>1. work[r].at + RefreshLife \in Nat
    BY LifetimeAssumption DEF Work
  <2>2. authz' \in [Authorization -> AuthorizationDoc]
    <3>1. work[r].authorization \in Authorization
      BY <1>11 DEF ExtendAuthorization, Applied, Bookkeeping, HoldsItsData
    <3> QED
      BY <1>11, <2>1, <3>1 DEF ExtendAuthorization, AuthorizationDoc
  <2> QED
    BY <1>11, <2>2 DEF ExtendAuthorization, Applied, Running, Bookkeeping, HoldsItsData
<1>12. CASE FindAccessToken(r)
  <2>1. payload[r].token \in Token
    BY <1>12 DEF FindAccessToken, Running, Bookkeeping, HoldsItsData, Payload
  <2>2. PICK v \in Token \cup {None} :
          /\ work' = [work EXCEPT ![r] =
               [authorization |-> AuthorizationOf(payload[r].token),
                root |-> tokens[payload[r].token].root, victim |-> v, at |-> 0]]
          /\ pending' = [pending EXCEPT ![r] =
               IF v = None THEN {"token"} ELSE {"token", "victim"}]
    BY <1>12, <2>1 DEF FindAccessToken, AccessTokensOf
  <2>3. /\ work' \in [Request -> Work]
        /\ work'[r].victim = v
        /\ \A q \in Request : q # r => work'[q] = work[q]
    BY <2>1, <2>2 DEF Work, AuthorizationOf, TokenDoc
  <2> QED
    BY <1>12, <2>2, <2>3
       DEF FindAccessToken, Write, Running, Bookkeeping, HoldsItsData
<1>13. ASSUME NEW t \in Token, NEW write \in Write, Delete(r, write, t)
       PROVE  Shape'
  <2>1. /\ tokens' \in [Token -> TokenDoc]
        /\ \A u \in Token : tokens'[u].state # "unused" => tokens'[u].authorization \in Authorization
    BY <1>13, RemoveType DEF Delete, TokenState, Bookkeeping
  <2> QED
    BY <1>13, <2>1 DEF Delete, Applied, Running, Bookkeeping, HoldsItsData
<1>14. CASE DeleteToken(r)
  <2>1. payload[r].token \in Token /\ "token" \in Write
    BY <1>14 DEF DeleteToken, Delete, Applied, Bookkeeping, HoldsItsData, Payload, Write
  <2> QED
    BY <1>13, <1>14, <2>1 DEF DeleteToken
<1>15. CASE DeleteAccessToken(r)
  <2>1. work[r].victim \in Token /\ "victim" \in Write
    BY <1>15 DEF DeleteAccessToken, Delete, Applied, Bookkeeping, HoldsItsData, Write
  <2> QED
    BY <1>13, <1>15, <2>1 DEF DeleteAccessToken
<1>16. CASE DescribeToken(r) \/ ServeClaims(r) \/ Respond(r)
  BY <1>16 DEF DescribeToken, ServeClaims, Respond, Ended, Running, Bookkeeping, HoldsItsData
<1>17. CASE DiscardCode(r)
  <2>1. Discarded(r) \in Token
    BY <1>17, GrantsAreTokens DEF DiscardCode
  <2>2. /\ tokens' \in [Token -> TokenDoc]
        /\ \A t \in Token : tokens'[t].state # "unused" => tokens'[t].authorization \in Authorization
    BY <1>17, <2>1, RemoveType DEF DiscardCode, Finds, TokenState, Bookkeeping
  <2> QED
    BY <1>17, <2>2 DEF DiscardCode, Running, Bookkeeping, HoldsItsData
<1> QED
  BY <1>1, <1>4, <1>5, <1>6, <1>7, <1>8, <1>10, <1>11, <1>12, <1>14, <1>15, <1>16, <1>17
     DEF Proceed

LEMMA DisturbShape ==
  ASSUME Shape, NEW r \in Request, Disturb(r)
  PROVE  Shape'
<1>1. CASE Fail(r)
  BY <1>1 DEF Fail, Goto, Shape, TypeOK, Ended, Running, Bookkeeping, HoldsItsData
<1>2. CASE Crash(r)
  BY <1>2 DEF Crash, Goto, Shape, TypeOK, Ended, Running, Bookkeeping, HoldsItsData
<1>3. ASSUME NEW write \in Write, FailWrite(r, write)
      PROVE  Shape'
  BY <1>3 DEF FailWrite, Applied, Goto, Shape, TypeOK, Ended, Running, Bookkeeping, HoldsItsData
<1> QED
  BY <1>1, <1>2, <1>3 DEF Disturb

LEMMA StutterShape == Shape /\ UNCHANGED vars => Shape'
BY DEF vars, Shape, TypeOK, Bookkeeping, HoldsItsData

LEMMA StepShape == Shape /\ [Next]_vars => Shape'
BY IssueShape, ReceiveShape, ProceedShape, DisturbShape, StutterShape DEF Next

(* Every variable of the token store keeps its type, whatever the sizes of *)
(* its sets, the lifetimes and the number of requests.                     *)
THEOREM TypeCorrect == Spec => []TypeOK
<1>1. Shape => TypeOK
  BY DEF Shape
<1> QED
  BY <1>1, InitShape, StepShape, PTL DEF Spec

-----------------------------------------------------------------------------
(* NoForkedSession.  It is inductive once it is known that nothing is       *)
(* rooted in a code that has not been issued yet.                          *)

Presents(r, t) == payload[r] \in Payload /\ t \in {payload[r].token, payload[r].beside}

Rooted ==
  /\ \A t \in Token :
       tokens[t].state # "unused" => tokens[tokens[t].root].state # "unused"
  /\ \A r \in Request :
       /\ work[r].root \in Token => tokens[work[r].root].state # "unused"
       /\ \A t \in Token : Presents(r, t) => tokens[t].state # "unused"

Sessions == Shape /\ Rooted /\ NoForkedSession

(* Nobody can redeem, or owes, more than before: no session has forked.    *)
LEMMA NothingNew ==
  ASSUME NoForkedSession,
         \A c \in Token : \A t \in Token : Redeemable(t, c)' => Redeemable(t, c),
         \A c \in Token : \A r \in Request : Redeeming(r, c)' => Redeeming(r, c)
  PROVE  NoForkedSession'
BY DEF NoForkedSession

(* Documents keep their roots, and none becomes unused.                    *)
LEMMA RootsStay ==
  ASSUME Shape, Rooted, UNCHANGED payload,
         \A t \in Token : /\ tokens'[t].root = tokens[t].root
                          /\ tokens'[t].state = "unused" <=> tokens[t].state = "unused",
         \A r \in Request :
           \/ work'[r].root = work[r].root
           \/ \E t \in Token : tokens[t].state # "unused" /\ work'[r].root = tokens[t].root
  PROVE  Rooted'
BY DEF Shape, TypeOK, TokenDoc, Presents, Rooted

LEMMA NoPayloadPresented == NoPayload \notin Payload
<1> SUFFICES ASSUME NoPayload \in Payload
             PROVE  FALSE
  OBVIOUS
<1>1. DOMAIN NoPayload = {"kind"}
  BY DEF NoPayload
<1>2. "token" \in DOMAIN NoPayload
  BY DEF Payload
<1> QED
  BY <1>1, <1>2

LEMMA InitSessions == Init => Sessions
<1>1. Init => Rooted /\ NoForkedSession
  BY NoneAssumption, NoPayloadPresented
     DEF Init, Rooted, Presents, NoForkedSession, Redeemable, Redeeming, Live, NoWork
<1> QED
  BY <1>1, InitShape DEF Sessions

(* A document that is removed takes no part in any session any more.       *)
LEMMA RemoveRedeemable ==
  ASSUME Shape, NEW t \in Token, NEW reason \in TokenState \ {"unused", "live"},
         Live(t), Remove(t, reason)
  PROVE  /\ \A u, c \in Token : Redeemable(u, c)' <=> Redeemable(u, c) /\ u # t
         /\ \A u \in Token :
              /\ tokens'[u].root = tokens[u].root
              /\ tokens'[u].state = "unused" <=> tokens[u].state = "unused"
<1>1. reason \in TokenState \ {"unused"}
  OBVIOUS
<1>2. /\ \A u \in Token : /\ tokens'[u].root = tokens[u].root
                          /\ tokens'[u].type = tokens[u].type
                          /\ u # t => tokens'[u] = tokens[u]
      /\ \A u \in Token : tokens'[u].state = "unused" <=> tokens[u].state = "unused"
      /\ tokens'[t].state = reason
  BY <1>1, RemoveType
<1> QED
  BY <1>2 DEF Redeemable, Live

(* A step that leaves the requests alone changes no debt.                  *)
LEMMA SameRequests ==
  ASSUME UNCHANGED <<pc, work, pending>>
  PROVE  \A c \in Token : \A r \in Request : Redeeming(r, c)' <=> Redeeming(r, c)
BY DEF Redeeming

LEMMA SameTokens ==
  ASSUME UNCHANGED tokens
  PROVE  \A c, t \in Token : Redeemable(t, c)' <=> Redeemable(t, c)
BY DEF Redeemable, Live

(* A fresh code starts a session of its own.                               *)
LEMMA IssueCodeSessions ==
  ASSUME Sessions, NEW a \in Authorization, NEW t \in Token, IssueCode(a, t)
  PROVE  Rooted' /\ NoForkedSession'
<1> DEFINE d == Document("code", a, t, None, now + CodeLife)
<1>1. /\ tokens[t].state = "unused"
      /\ tokens' = [tokens EXCEPT ![t] = d]
      /\ UNCHANGED <<pc, payload, work, pending>>
  BY DEF IssueCode, Fresh
<1>2. d.root = t /\ d.state = "live" /\ d.type = "code"
  BY DEF Document
<1> HIDE DEF d
<1>3. \A u \in Token : tokens'[u] = IF u = t THEN d ELSE tokens[u]
  BY <1>1 DEF Sessions, Shape, TypeOK
<1>4. Rooted'
  BY <1>1, <1>2, <1>3 DEF Sessions, Rooted, Presents, Shape, TypeOK, TokenDoc
<1>5. \A u, c \in Token : Redeemable(u, c)' <=> Redeemable(u, c) \/ (u = t /\ c = t)
  BY <1>1, <1>2, <1>3 DEF Redeemable, Live
<1>6. \A u \in Token : ~Redeemable(u, t)
  BY <1>1 DEF Redeemable, Live, Sessions, Rooted
<1>7. \A r \in Request : ~Redeeming(r, t)
  BY <1>1 DEF Redeeming, Sessions, Rooted
<1>8. \A c \in Token : \A r \in Request : Redeeming(r, c)' <=> Redeeming(r, c)
  BY <1>1, SameRequests
<1>9. NoForkedSession
  BY DEF Sessions
<1> QED
  BY <1>4, <1>5, <1>6, <1>7, <1>8, <1>9 DEF NoForkedSession

LEMMA IssueSessions ==
  ASSUME Sessions, Tick \/ Reap \/ \E a \in Authorization : Issue(a)
  PROVE  Rooted' /\ NoForkedSession'
<1>1. UNCHANGED <<pc, payload, work, pending>>
  BY DEF Tick, Reap, ReapToken, ReapAuthorization, Issue, CreateAuthorization, Consent,
         IssueCode, IssueFrontChannelToken
<1>2. \A c \in Token : \A r \in Request : Redeeming(r, c)' <=> Redeeming(r, c)
  BY <1>1, SameRequests
<1>3. CASE UNCHANGED tokens
  <2>1. \A c, t \in Token : Redeemable(t, c)' <=> Redeemable(t, c)
    BY <1>3, SameTokens
  <2> QED
    BY <1>1, <1>2, <1>3, <2>1, NothingNew, RootsStay DEF Sessions
<1>4. ASSUME NEW t \in Token, ReapToken(t)
      PROVE  Rooted' /\ NoForkedSession'
  <2>1. /\ \A u, c \in Token : Redeemable(u, c)' => Redeemable(u, c)
        /\ \A u \in Token : /\ tokens'[u].root = tokens[u].root
                            /\ tokens'[u].state = "unused" <=> tokens[u].state = "unused"
    BY <1>4, RemoveRedeemable DEF ReapToken, Remove, TokenState, Sessions
  <2> QED
    BY <1>1, <1>2, <2>1, NothingNew, RootsStay DEF Sessions
<1>5. ASSUME NEW a \in Authorization, NEW t \in Token, IssueFrontChannelToken(a, t)
      PROVE  Rooted' /\ NoForkedSession'
  <2> DEFINE d == Document("access", a, t, None, now + AccessLife)
  <2>1. tokens[t].state = "unused" /\ tokens' = [tokens EXCEPT ![t] = d]
    BY <1>5 DEF IssueFrontChannelToken, Fresh
  <2>2. d.root = t /\ d.state = "live" /\ d.type = "access"
    BY DEF Document
  <2> HIDE DEF d
  <2>3. \A u \in Token : tokens'[u] = IF u = t THEN d ELSE tokens[u]
    BY <2>1 DEF Sessions, Shape, TypeOK
  <2>4. Rooted'
    BY <1>1, <2>1, <2>2, <2>3 DEF Sessions, Rooted, Presents, Shape, TypeOK, TokenDoc
  <2>5. \A u, c \in Token : Redeemable(u, c)' => Redeemable(u, c)
    BY <2>1, <2>2, <2>3 DEF Redeemable, Live
  <2> QED
    BY <1>2, <2>4, <2>5, NothingNew DEF Sessions
<1>6. Tick \/ (\E a \in Authorization : ReapAuthorization(a) \/ Consent(a)
                 \/ \E scope \in SUBSET Scope : CreateAuthorization(a, scope))
        => UNCHANGED tokens
  BY DEF Tick, ReapAuthorization, Consent, CreateAuthorization
<1> QED
  BY <1>3, <1>4, <1>5, <1>6, IssueCodeSessions DEF Reap, Issue

(* A step of r that removes nothing, adds nothing and takes on no debt.    *)
LEMMA IdleStepSessions ==
  ASSUME Sessions, UNCHANGED <<tokens, work, payload>>,
         \A q \in Request : pc'[q] = "drop" => pc[q] = "drop",
         \A q \in Request : pending'[q] \subseteq pending[q]
  PROVE  Rooted' /\ NoForkedSession'
<1>1. \A c, t \in Token : Redeemable(t, c)' <=> Redeemable(t, c)
  BY SameTokens
<1>2. \A c \in Token : \A q \in Request : Redeeming(q, c)' => Redeeming(q, c)
  BY DEF Redeeming
<1> QED
  BY <1>1, <1>2, NothingNew, RootsStay DEF Sessions

LEMMA ReceiveSessions ==
  ASSUME Sessions, NEW r \in Request, Receive(r)
  PROVE  Rooted' /\ NoForkedSession'
<1>1. PICK p \in Payload, label \in {"ok", "find", "inactive", "describe", "discard", "consume", "narrow", "claims"} :
        /\ tokens[p.token].state # "unused"
        /\ p.beside \in Token => tokens[p.beside].state # "unused"
        /\ Reject(r) \/ Accept(r, p, label)
  BY ReceiveAnswers DEF Sessions, Reached
<1>2. CASE Reject(r)
  BY <1>2, IdleStepSessions DEF Reject, Goto, Sessions, Shape, TypeOK
<1>3. CASE Accept(r, p, label)
  <2>1. \A q \in Request, t \in Token :
          Presents(q, t)' => Presents(q, t) \/ t \in {p.token, p.beside}
    BY <1>3 DEF Accept, Presents, Sessions, Shape, TypeOK
  <2>2. Rooted'
    BY <1>1, <1>3, <2>1 DEF Accept, Rooted, Sessions
  <2>3. \A c \in Token : \A q \in Request : Redeeming(q, c)' => Redeeming(q, c)
    BY <1>3 DEF Accept, Goto, Redeeming, Sessions, Shape, TypeOK
  <2> QED
    BY <1>3, <2>2, <2>3, SameTokens, NothingNew DEF Accept, Sessions
<1> QED
  BY <1>1, <1>2, <1>3

(* Consuming a grant turns it into the debt of the request that got it;    *)
(* another request that has validated the same grant gets nothing.         *)
LEMMA ConsumeSessions ==
  ASSUME Sessions, NEW r \in Request, ConsumeCode(r) \/ ConsumeRefreshToken(r)
  PROVE  Rooted' /\ NoForkedSession'
<1> DEFINE t == Redeemed(r)
<1>1. /\ t \in Token /\ Live(t) /\ Remove(t, "consumed") /\ Hold(r, t)
      /\ tokens[t].type \in {"code", "refresh"}
      /\ UNCHANGED payload
  BY GrantsAreTokens DEF ConsumeCode, ConsumeRefreshToken, Consumable, Finds, Sessions
<1>2. \A q \in Request : q # r =>
        work'[q] = work[q] /\ pc'[q] = pc[q] /\ pending'[q] = pending[q]
  BY <1>1 DEF ConsumeCode, ConsumeRefreshToken, Hold, Goto, Sessions, Shape, TypeOK
<1>3. work'[r].root = tokens[t].root
  BY <1>1 DEF Hold, Sessions, Shape, TypeOK
<1> HIDE DEF t
<1>4. /\ \A u, c \in Token : Redeemable(u, c)' <=> Redeemable(u, c) /\ u # t
      /\ \A u \in Token : /\ tokens'[u].root = tokens[u].root
                          /\ tokens'[u].state = "unused" <=> tokens[u].state = "unused"
  BY <1>1, RemoveRedeemable DEF TokenState, Sessions
<1>5. tokens[t].state # "unused"
  BY <1>1 DEF Live
<1>6. Rooted'
  BY <1>1, <1>2, <1>3, <1>4, <1>5, RootsStay DEF Sessions
<1>7. \A q \in Request, c \in Token : q # r => (Redeeming(q, c)' <=> Redeeming(q, c))
  BY <1>2 DEF Redeeming
<1>8. \A c \in Token : Redeeming(r, c)' => c = tokens[t].root
  BY <1>3 DEF Redeeming
<1>9. Redeemable(t, tokens[t].root)
  BY <1>1 DEF Redeemable
<1>10. tokens[t].root \in Token
  BY <1>1 DEF Sessions, Shape, TypeOK, TokenDoc
<1> QED
  BY <1>1, <1>4, <1>6, <1>7, <1>8, <1>9, <1>10 DEF NoForkedSession, Sessions

(* Minting the refresh token pays the debt: the new grant takes the place  *)
(* of the request, whose session had no other.                             *)
LEMMA MintSessions ==
  ASSUME Sessions, NEW r \in Request, NEW t \in Token,
         MintAccessToken(r, t) \/ MintRefreshToken(r, t)
  PROVE  Rooted' /\ NoForkedSession'
<1>1. PICK type \in {"access", "refresh"}, life \in Nat :
        Mint(r, t, type, life)
  BY LifetimeAssumption DEF MintAccessToken, MintRefreshToken
<1> DEFINE d == Document(type, work[r].authorization, work[r].root, r, work[r].at + life)
<1>2. /\ type \in pending[r]
      /\ pending' = [pending EXCEPT ![r] = @ \ {type}]
      /\ tokens[t].state = "unused"
      /\ tokens' = [tokens EXCEPT ![t] = d]
      /\ UNCHANGED <<pc, payload, work>>
  BY <1>1 DEF Mint, Applied, Fresh
<1>3. d.root = work[r].root /\ d.state = "live" /\ d.type = type
  BY DEF Document
<1>4. /\ work[r].root \in Token
      /\ pc[r] # "drop"
  BY <1>2 DEF Sessions, Shape, Bookkeeping, HoldsItsData
<1> HIDE DEF d
<1>5. \A u \in Token : tokens'[u] = IF u = t THEN d ELSE tokens[u]
  BY <1>2 DEF Sessions, Shape, TypeOK
<1>6. Rooted'
  BY <1>2, <1>3, <1>4, <1>5 DEF Sessions, Rooted, Presents, Shape, TypeOK, TokenDoc
<1>7. \A q \in Request : pending'[q] = IF q = r THEN pending[r] \ {type} ELSE pending[q]
  BY <1>2 DEF Sessions, Shape, TypeOK
<1>8. \A q \in Request, c \in Token : Redeeming(q, c)' => Redeeming(q, c)
  BY <1>2, <1>7 DEF Redeeming
<1>9. CASE type = "access"
  <2>1. \A u, c \in Token : Redeemable(u, c)' => Redeemable(u, c)
    BY <1>2, <1>3, <1>5, <1>9 DEF Redeemable, Live
  <2> QED
    BY <1>6, <1>8, <2>1, NothingNew DEF Sessions
<1>10. CASE type = "refresh"
  <2>1. \A u, c \in Token :
          Redeemable(u, c)' => Redeemable(u, c) \/ (u = t /\ c = work[r].root)
    BY <1>2, <1>3, <1>5, <1>10 DEF Redeemable, Live
  <2>2. Redeeming(r, work[r].root)
    BY <1>2, <1>10 DEF Redeeming
  <2>3. \A c \in Token : ~Redeeming(r, c)'
    BY <1>2, <1>4, <1>7, <1>10 DEF Redeeming
  <2> QED
    BY <1>4, <1>6, <1>8, <2>1, <2>2, <2>3 DEF NoForkedSession, Sessions
<1> QED
  BY <1>1, <1>9, <1>10

LEMMA ProceedSessions ==
  ASSUME Sessions, NEW r \in Request, Proceed(r)
  PROVE  Rooted' /\ NoForkedSession'
<1>1. CASE NarrowScope(r) \/ ConsumeNothing(r) \/ DescribeToken(r) \/ ServeClaims(r)
             \/ Respond(r)
  <2>1. FirstDeletion(payload[r]) # "drop"
    BY DEF FirstDeletion
  <2>2. \A q \in Request : pc'[q] = "drop" => pc[q] = "drop"
    BY <1>1, <2>1
       DEF NarrowScope, ConsumeNothing, DescribeToken, ServeClaims, Respond, Goto,
           Sessions, Shape, TypeOK
  <2>3. UNCHANGED <<tokens, work, payload, pending>>
    BY <1>1 DEF NarrowScope, ConsumeNothing, DescribeToken, ServeClaims, Respond
  <2> QED
    BY <2>2, <2>3, IdleStepSessions
<1>2. CASE ExtendAuthorization(r)
  BY <1>2, IdleStepSessions DEF ExtendAuthorization, Applied, Sessions, Shape, TypeOK
<1>3. ASSUME NEW t \in Token, NEW reason \in TokenState \ {"unused", "live"},
             Live(t), Remove(t, reason), UNCHANGED payload,
             \A q \in Request : work'[q].root = work[q].root,
             \A c \in Token : \A q \in Request : Redeeming(q, c)' => Redeeming(q, c)
      PROVE  Rooted' /\ NoForkedSession'
  BY <1>3, RemoveRedeemable, NothingNew, RootsStay DEF Sessions
<1>4. CASE ConsumeOrphan(r)
  <2>1. Redeemed(r) \in Token
    BY <1>4, GrantsAreTokens DEF ConsumeOrphan, Sessions
  <2>2. \A c \in Token : \A q \in Request : Redeeming(q, c)' => Redeeming(q, c)
    BY <1>4 DEF ConsumeOrphan, Goto, Redeeming, Sessions, Shape, TypeOK
  <2> QED
    BY <1>3, <1>4, <2>1, <2>2 DEF ConsumeOrphan, Finds, TokenState
<1>5. CASE DropAccessToken(r)
  <2>1. /\ UNCHANGED payload
        /\ \A q \in Request : work'[q].root = work[q].root
        /\ \A c \in Token : \A q \in Request : Redeeming(q, c)' => Redeeming(q, c)
    BY <1>5 DEF DropAccessToken, Goto, Redeeming, Sessions, Shape, TypeOK, Work
  <2>2. CASE UNCHANGED tokens
    BY <2>1, <2>2, SameTokens, NothingNew, RootsStay DEF Sessions
  <2>3. ASSUME NEW t \in Token, Live(t), Remove(t, "dropped")
        PROVE  Rooted' /\ NoForkedSession'
    BY <1>3, <2>1, <2>3 DEF TokenState
  <2> QED
    BY <1>5, <2>2, <2>3 DEF DropAccessToken, AccessTokensOf
<1>6. CASE FindAccessToken(r)
  <2>1. payload[r].token \in Token
    BY <1>6 DEF FindAccessToken, Running, Sessions, Shape, Bookkeeping, HoldsItsData, Payload
  <2>2. /\ \A q \in Request : q # r =>
             work'[q] = work[q] /\ pc'[q] = pc[q] /\ pending'[q] = pending[q]
        /\ pc'[r] = "delete" /\ "refresh" \notin pending'[r]
        /\ work'[r].root = tokens[payload[r].token].root
        /\ UNCHANGED tokens
    BY <1>6 DEF FindAccessToken, Goto, Sessions, Shape, TypeOK
  <2>3. \A c \in Token : \A q \in Request : Redeeming(q, c)' => Redeeming(q, c)
    BY <2>2 DEF Redeeming
  <2>4. NoForkedSession'
    BY <2>2, <2>3, SameTokens, NothingNew DEF Sessions
  <2>5. tokens[payload[r].token].state # "unused"
    BY <1>6 DEF FindAccessToken, Sessions, Shape, Bookkeeping, HoldsItsData, Running,
                Payload, Presents, Rooted
  <2>6. Rooted'
    BY <1>6, <2>1, <2>2, <2>5, RootsStay DEF FindAccessToken, Sessions
  <2> QED
    BY <2>4, <2>6
<1>7. ASSUME NEW t \in Token, NEW write \in Write, Delete(r, write, t)
      PROVE  Rooted' /\ NoForkedSession'
  <2>1. /\ UNCHANGED payload
        /\ \A q \in Request : work'[q].root = work[q].root
        /\ \A c \in Token : \A q \in Request : Redeeming(q, c)' => Redeeming(q, c)
    BY <1>7 DEF Delete, Applied, Redeeming, Sessions, Shape, TypeOK
  <2>2. CASE UNCHANGED tokens
    BY <2>1, <2>2, SameTokens, NothingNew, RootsStay DEF Sessions
  <2>3. CASE Live(t) /\ Remove(t, "revoked")
    BY <1>3, <2>1, <2>3 DEF TokenState
  <2> QED
    BY <1>7, <2>2, <2>3 DEF Delete
<1>8. CASE DeleteToken(r)
  <2>1. payload[r].token \in Token /\ "token" \in Write
    BY <1>8 DEF DeleteToken, Delete, Applied, Sessions, Shape, Bookkeeping, HoldsItsData,
                Payload, Write
  <2> QED
    BY <1>7, <1>8, <2>1 DEF DeleteToken
<1>9. CASE DeleteAccessToken(r)
  <2>1. work[r].victim \in Token /\ "victim" \in Write
    BY <1>9 DEF DeleteAccessToken, Delete, Applied, Sessions, Shape, Bookkeeping,
                HoldsItsData, Write
  <2> QED
    BY <1>7, <1>9, <2>1 DEF DeleteAccessToken
<1>10. CASE DiscardCode(r)
  <2>1. Discarded(r) \in Token
    BY <1>10, GrantsAreTokens DEF DiscardCode, Sessions
  <2>2. \A c \in Token : \A q \in Request : Redeeming(q, c)' => Redeeming(q, c)
    BY <1>10 DEF DiscardCode, Goto, Redeeming, Sessions, Shape, TypeOK
  <2> QED
    BY <1>3, <1>10, <2>1, <2>2 DEF DiscardCode, Finds, TokenState
<1> QED
  BY <1>1, <1>2, <1>4, <1>5, <1>6, <1>8, <1>9, <1>10, ConsumeSessions, MintSessions
     DEF Proceed

LEMMA DisturbSessions ==
  ASSUME Sessions, NEW r \in Request, Disturb(r)
  PROVE  Rooted' /\ NoForkedSession'
BY IdleStepSessions
   DEF Disturb, Fail, Crash, FailWrite, Applied, Goto, Sessions, Shape, TypeOK

LEMMA StutterSessions ==
  ASSUME Sessions, UNCHANGED vars
  PROVE  Rooted' /\ NoForkedSession'
BY SameTokens, SameRequests, NothingNew, RootsStay DEF vars, Sessions

LEMMA StepSessions == Sessions /\ [Next]_vars => Sessions'
<1> SUFFICES ASSUME Sessions, [Next]_vars
             PROVE  Rooted' /\ NoForkedSession'
  BY StepShape DEF Sessions
<1> QED
  BY IssueSessions, ReceiveSessions, ProceedSessions, DisturbSessions, StutterSessions
     DEF Next

(* A code, and every refresh token after it, is redeemed at most once, for *)
(* any number of requests that race, fail or crash: the chain of grants    *)
(* that starts with a code never forks (findByIdAndDelete in token/index.ts)*)
THEOREM SessionsNeverFork == Spec => []NoForkedSession
<1>1. Sessions => NoForkedSession
  BY DEF Sessions
<1> QED
  BY <1>1, InitSessions, StepSessions, PTL DEF Spec

=============================================================================
