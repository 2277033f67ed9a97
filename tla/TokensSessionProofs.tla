------------------------- MODULE TokensSessionProofs -------------------------
(***************************************************************************)
(* Theorems about the session of a plain code flow in Tokens: it has one   *)
(* access token at a time, its authorization outlives its refresh token,   *)
(* and nothing of it is left when its refresh token has been revoked.      *)
(***************************************************************************)
EXTENDS TokensPromisesProofs

Used(t) == tokens[t].state # "unused"

GrantWrites == {"access", "refresh", "extend"}

Owes(r) == pending[r] \cap GrantWrites # {}
Serves(r) == pc[r] = "drop" \/ Owes(r)

(* Every token descends from one that the authorization endpoint issued    *)
(* for the same authorization, and nobody redeems what was not handed out. *)
First(c, a) ==
  /\ Used(c) /\ tokens[c].by = None
  /\ tokens[c].root = c /\ tokens[c].authorization = a

Descent(t) ==
  Used(t) =>
    /\ First(tokens[t].root, tokens[t].authorization)
    /\ authz[tokens[t].authorization].state # "unused"
    /\ tokens[t].by = None => tokens[t].root = t
    /\ tokens[t].by # None => tokens[tokens[t].root].type = "code"
    /\ tokens[t].type = "code" => tokens[t].by = None
    /\ tokens[t].type = "refresh" => tokens[t].by # None

Origin(r) ==
  /\ work[r].root # None => First(work[r].root, work[r].authorization)
  /\ Serves(r) => work[r].root # None /\ tokens[work[r].root].type = "code"
  /\ Owes(r) => pc[r] \in {"mint", "error"}
  /\ pc[r] = "ok" => pending[r] = {}
  /\ pc[r] = "idle" => work[r].root = None
  /\ "victim" \in pending[r] => tokens[work[r].victim].type = "access"
  /\ \A t \in Token : Presents(r, t) => Known(t)

Lineage == (\A t \in Token : Descent(t)) /\ \A r \in Request : Origin(r)

Descended == Promises /\ Lineage

-----------------------------------------------------------------------------
(* What a step leaves as it was.                                           *)
SameDocument(t) ==
  /\ tokens'[t].type = tokens[t].type /\ tokens'[t].root = tokens[t].root
  /\ tokens'[t].by = tokens[t].by /\ tokens'[t].authorization = tokens[t].authorization
  /\ tokens'[t].expires_at = tokens[t].expires_at

Persist ==
  /\ \A t \in Token : Used(t) => Used(t)' /\ SameDocument(t)
  /\ \A r \in Request : pc[r] = "ok" => pc'[r] = "ok"
  /\ \A a \in Authorization : authz[a].state # "unused" => authz'[a].state # "unused"

(* No document is created.                                                 *)
NoneCreated ==
  \A t \in Token : SameDocument(t) /\ (Used(t)' <=> Used(t)) /\ (Live(t)' => Live(t))

LEMMA SameNoneCreated ==
  ASSUME tokens' = tokens PROVE NoneCreated
BY DEF NoneCreated, SameDocument, Used, Live

LEMMA RemovedNoneCreated ==
  ASSUME TypeOK, NEW t \in Token, NEW reason \in TokenState \ {"unused", "live"},
         Live(t), Remove(t, reason)
  PROVE  /\ NoneCreated /\ ~Live(t)'
         /\ \A u \in Token : u # t => tokens'[u] = tokens[u]
BY DEF TypeOK, TokenDoc, TokenState, Live, Used, Remove, NoneCreated, SameDocument

(* What a step other than the creation of a document does to documents.    *)
Creates(t) ==
  \/ \E a \in Authorization : IssueCode(a, t) \/ IssueFrontChannelToken(a, t)
  \/ \E r \in Request : MintAccessToken(r, t) \/ MintRefreshToken(r, t)

LEMMA CreatesNone ==
  ASSUME Promises, [Next]_vars, \A t \in Token : ~Creates(t)
  PROVE  NoneCreated
<1>1. TypeOK
  BY DEF Promises, Sessions, Shape
<1>2. ASSUME NEW t \in Token, NEW reason \in {"consumed", "dropped", "revoked", "expired"},
             Live(t), Remove(t, reason)
      PROVE  NoneCreated
  BY <1>1, <1>2, RemovedNoneCreated DEF TokenState
<1>3. SUFFICES \/ tokens' = tokens
               \/ \E t \in Token, reason \in {"consumed", "dropped", "revoked", "expired"} :
                    Live(t) /\ Remove(t, reason)
  BY <1>2, SameNoneCreated
<1>4. CASE UNCHANGED vars \/ Tick \/ Reap \/ \E a \in Authorization : Issue(a)
  BY <1>4 DEF vars, Tick, Reap, ReapToken, ReapAuthorization, Issue, CreateAuthorization,
              Consent, Creates, Remove
<1>5. ASSUME NEW r \in Request, Receive(r) PROVE tokens' = tokens
  BY <1>5, ReceiveAnswers DEF Reject, Accept, Promises, Sessions
<1>6. ASSUME NEW r \in Request, Disturb(r) PROVE tokens' = tokens
  BY <1>6 DEF Disturb, Fail, Crash, FailWrite
<1>7. ASSUME NEW r \in Request, Proceed(r)
      PROVE  \/ tokens' = tokens
             \/ \E t \in Token, reason \in {"consumed", "dropped", "revoked", "expired"} :
                  Live(t) /\ Remove(t, reason)
  <2>1. CASE ConsumeCode(r) \/ ConsumeRefreshToken(r) \/ ConsumeOrphan(r)
    <3>1. pc[r] \in Running /\ Live(Redeemed(r)) /\ Remove(Redeemed(r), "consumed")
      BY <2>1 DEF ConsumeCode, ConsumeRefreshToken, ConsumeOrphan, Consumable, Finds, Running
    <3> QED
      BY <3>1, AtWork
  <2>7. CASE DiscardCode(r)
    BY <2>7, GrantsAreTokens DEF DiscardCode, Finds, Promises, Sessions
  <2>2. CASE DropAccessToken(r)
    BY <2>2 DEF DropAccessToken, AccessTokensOf
  <2>3. CASE DeleteToken(r)
    <3>1. pending[r] # {}
      BY <2>3 DEF DeleteToken, Delete, Applied
    <3> QED
      BY <2>3, <3>1, AtWork DEF DeleteToken, Delete
  <2>4. CASE DeleteAccessToken(r)
    <3>1. "victim" \in pending[r]
      BY <2>4 DEF DeleteAccessToken, Delete, Applied
    <3> QED
      BY <2>4, <3>1, AtWork DEF DeleteAccessToken, Delete, HoldsItsData
  <2>5. CASE \E t \in Token : MintAccessToken(r, t) \/ MintRefreshToken(r, t)
    BY <2>5 DEF Creates
  <2>6. CASE \/ NarrowScope(r) \/ ConsumeNothing(r) \/ ExtendAuthorization(r)
             \/ FindAccessToken(r) \/ DescribeToken(r) \/ ServeClaims(r) \/ Respond(r)
    BY <2>6 DEF NarrowScope, ConsumeNothing, ExtendAuthorization, FindAccessToken,
                DescribeToken, ServeClaims, Respond
  <2> QED
    BY <1>7, <2>1, <2>2, <2>3, <2>4, <2>5, <2>6, <2>7 DEF Proceed
<1> QED
  BY <1>4, <1>5, <1>6, <1>7 DEF Next

(* A document that is created is the only one that changes.                *)
LEMMA CreatesOne ==
  ASSUME Promises, NEW t \in Token, Creates(t)
  PROVE  /\ ~Used(t) /\ Used(t)' /\ Live(t)'
         /\ \A u \in Token : u # t => tokens'[u] = tokens[u]
<1>1. TypeOK
  BY DEF Promises, Sessions, Shape
<1>2. PICK type, a, root, by, e :
        /\ Fresh(t) /\ tokens' = [tokens EXCEPT ![t] = Document(type, a, root, by, e)]
  BY DEF Creates, IssueCode, IssueFrontChannelToken, MintAccessToken, MintRefreshToken, Mint
<1>3. Document(type, a, root, by, e).state = "live"
  BY DEF Document
<1> QED
  BY <1>1, <1>2, <1>3 DEF TypeOK, Fresh, Used, Live

(* A step of a request concerns no other request.                          *)
LEMMA OneRequest ==
  ASSUME Promises, NEW r \in Request, Receive(r) \/ Proceed(r) \/ Disturb(r)
  PROVE  OthersSame(r)
<1>1. TypeOK
  BY DEF Promises, Sessions, Shape
<1>2. CASE Receive(r)
  BY <1>1, <1>2, ReceiveAnswers DEF Promises, Sessions, Reject, Accept, Goto, OthersSame, TypeOK
<1>3. CASE Disturb(r)
  BY <1>1, <1>3 DEF Disturb, Fail, Crash, FailWrite, Applied, Goto, OthersSame, TypeOK
<1>4. CASE Proceed(r)
  BY <1>1, <1>4
     DEF Proceed, NarrowScope, DiscardCode, ConsumeCode, ConsumeRefreshToken, ConsumeNothing, ConsumeOrphan,
         Hold, DropAccessToken, MintAccessToken, MintRefreshToken, Mint, ExtendAuthorization,
         Applied, FindAccessToken, DeleteToken, DeleteAccessToken, Delete, DescribeToken,
         ServeClaims, Respond, Goto, OthersSame, TypeOK
<1> QED
  BY <1>2, <1>3, <1>4

LEMMA AloneOrNone ==
  ASSUME [Next]_vars
  PROVE  \/ \E r \in Request : Receive(r) \/ Proceed(r) \/ Disturb(r)
         \/ UNCHANGED <<pc, payload, work, pending>>
BY DEF Next, vars, Tick, Reap, ReapToken, ReapAuthorization, Issue, CreateAuthorization, Consent,
       IssueCode, IssueFrontChannelToken

LEMMA StepPersists ==
  ASSUME Promises, Lineage, [Next]_vars
  PROVE  Persist
<1>1. \A t \in Token : Used(t) => Used(t)' /\ SameDocument(t)
  BY CreatesNone, CreatesOne DEF NoneCreated, SameDocument, Used
<1>2. \A r \in Request : pc[r] = "ok" => pc'[r] = "ok"
  <2>1. ASSUME NEW r \in Request, pc[r] = "ok", Receive(r) \/ Proceed(r) \/ Disturb(r)
        PROVE  pc'[r] = "ok"
    <3>1. pending[r] = {}
      BY <2>1 DEF Lineage, Origin
    <3> QED
      BY <2>1, <3>1
         DEF Receive, Disturb, Fail, Crash, FailWrite, Applied, Running, Proceed, NarrowScope,
             DiscardCode, ConsumeCode, ConsumeRefreshToken, ConsumeNothing, ConsumeOrphan, Consumable,
             DropAccessToken, MintAccessToken, MintRefreshToken, Mint, ExtendAuthorization,
             FindAccessToken, DeleteToken, DeleteAccessToken, Delete, DescribeToken,
             ServeClaims, Respond
  <2> QED
    BY <2>1, AloneOrNone, OneRequest DEF OthersSame
<1>3. \A a \in Authorization : authz[a].state # "unused" => authz'[a].state # "unused"
  <2>1. \A r \in Request : Receive(r) => authz' = authz
    BY ReceiveAnswers DEF Promises, Sessions, Reject, Accept
  <2>2. TypeOK
    BY DEF Promises, Sessions, Shape
  <2>3. ASSUME NEW r \in Request, Disturb(r) \/ Proceed(r)
        PROVE  \A a \in Authorization : authz'[a].state = authz[a].state
    BY <2>2, <2>3
       DEF Disturb, Fail, Crash, FailWrite, Proceed, NarrowScope,
           DiscardCode, ConsumeCode, ConsumeRefreshToken, ConsumeNothing, ConsumeOrphan,
           DropAccessToken, MintAccessToken, MintRefreshToken, Mint, ExtendAuthorization,
           FindAccessToken, DeleteToken, DeleteAccessToken, Delete, DescribeToken,
           ServeClaims, Respond, TypeOK, AuthorizationDoc
  <2>4. CASE UNCHANGED vars \/ Tick
    BY <2>4 DEF vars, Tick
  <2>5. CASE Reap
    BY <2>2, <2>5 DEF Reap, ReapToken, ReapAuthorization, TypeOK, AuthorizationDoc
  <2>6. ASSUME NEW a \in Authorization, NEW scope \in SUBSET Scope, CreateAuthorization(a, scope)
        PROVE  \A b \in Authorization : authz[b].state # "unused" => authz'[b].state # "unused"
    BY <2>2, <2>6 DEF CreateAuthorization, TypeOK
  <2>7. ASSUME NEW a \in Authorization, Consent(a)
        PROVE  \A b \in Authorization : authz[b].state # "unused" => authz'[b].state # "unused"
    BY <2>2, <2>7 DEF Consent, TypeOK, AuthorizationDoc
  <2>8. ASSUME NEW a \in Authorization, NEW t \in Token,
               IssueCode(a, t) \/ IssueFrontChannelToken(a, t)
        PROVE  authz' = authz
    BY <2>8 DEF IssueCode, IssueFrontChannelToken
  <2>9. CASE \E a \in Authorization : Issue(a)
    BY <2>6, <2>7, <2>8, <2>9 DEF Issue
  <2> QED
    BY <2>1, <2>3, <2>4, <2>5, <2>9 DEF Next
<1> QED
  BY <1>1, <1>2, <1>3 DEF Persist

LEMMA InitLineage == Init => Lineage
BY NoneAssumption, NoPayloadPresented
   DEF Init, Lineage, Descent, Origin, Serves, Owes, GrantWrites, Used, NoWork, Presents

LEMMA FirstPersists ==
  ASSUME Persist
  PROVE  \A c \in Token : \A a : First(c, a) => First(c, a)' /\ tokens'[c].type = tokens[c].type
BY DEF Persist, First, SameDocument

(* What a document or a request descends from is not lost.                 *)
LEMMA DescentStays ==
  ASSUME Shape, Lineage, Persist, NEW t \in Token, Used(t)
  PROVE  Descent(t)'
<1>1. tokens[t].root \in Token /\ tokens[t].authorization \in Authorization /\ Descent(t)
  BY DEF Shape, TypeOK, TokenDoc, Bookkeeping, Used, Lineage
<1>2. SameDocument(t) /\ First(tokens[t].root, tokens[t].authorization)'
  BY <1>1, FirstPersists DEF Descent, Persist, First, SameDocument
<1>3. tokens'[tokens[t].root].type = tokens[tokens[t].root].type
  BY <1>1, FirstPersists DEF Descent
<1> QED
  BY <1>1, <1>2, <1>3 DEF Descent, SameDocument, Persist

LEMMA KnownStays ==
  ASSUME TypeOK, Persist, NEW t \in Token, Known(t)
  PROVE  Known(t)'
<1>1. Used(t) /\ SameDocument(t) /\ Used(t)'
  BY DEF Known, Used, Persist
<1>2. tokens[t].by # None => tokens[t].by \in Request
  BY DEF TypeOK, TokenDoc
<1> QED
  BY <1>1, <1>2 DEF Known, Used, SameDocument, Persist

(* The work a request keeps, and the payload it was given.                 *)
LEMMA OriginStays ==
  ASSUME Promises, Lineage, Persist, NEW r \in Request,
         work'[r].root = work[r].root, work'[r].authorization = work[r].authorization,
         Serves(r)' => Serves(r),
         Owes(r)' => pc'[r] \in {"mint", "error"},
         pc'[r] = "ok" => pending'[r] = {},
         pc'[r] = "idle" => pc[r] = "idle",
         "victim" \in pending'[r] =>
           "victim" \in pending[r] /\ work'[r].victim = work[r].victim,
         payload'[r] = payload[r]
  PROVE  Origin(r)'
<1>1. Origin(r) /\ Shape /\ Rooted /\ TypeOK
  BY DEF Lineage, Promises, Sessions, Shape
<1>2. work[r].root # None => work[r].root \in Token
  BY <1>1 DEF TypeOK, Work
<1>3. work[r].root # None =>
        /\ First(work[r].root, work[r].authorization)'
        /\ tokens'[work[r].root].type = tokens[work[r].root].type
  BY <1>1, <1>2, FirstPersists DEF Origin, First
<1>4. \A t \in Token : Presents(r, t)' => Known(t)'
  BY <1>1, KnownStays DEF Origin, Presents
<1>5. "victim" \in pending[r] => tokens'[work[r].victim].type = "access"
  <2>1. "victim" \in pending[r] => work[r].victim \in Token /\ Used(work[r].victim)
    BY AtWork DEF HoldsItsData, Promise, Entitled, Used
  <2> QED
    BY <1>1, <2>1 DEF Origin, Persist, SameDocument
<1> QED
  BY <1>1, <1>3, <1>4, <1>5 DEF Origin

(* Creating a document: it continues what its creator holds, or starts.    *)
LEMMA DescentStarts ==
  ASSUME Promises, Lineage, Persist, NEW a \in Authorization, NEW t \in Token,
         IssueCode(a, t) \/ IssueFrontChannelToken(a, t)
  PROVE  /\ Descent(t)' /\ First(t, a)'
         /\ IssueCode(a, t) <=> tokens'[t].type = "code"
<1>1. TypeOK
  BY DEF Promises, Sessions, Shape
<1>2. PICK type, e : /\ tokens' = [tokens EXCEPT ![t] = Document(type, a, t, None, e)]
                     /\ type = IF IssueCode(a, t) THEN "code" ELSE "access"
  BY DEF IssueCode, IssueFrontChannelToken
<1>3. /\ tokens'[t].state = "live" /\ tokens'[t].by = None /\ tokens'[t].root = t
      /\ tokens'[t].authorization = a /\ tokens'[t].type = type
  BY <1>1, <1>2 DEF TypeOK, Document
<1>4. authz'[a].state # "unused"
  BY DEF IssueCode, IssueFrontChannelToken, LiveAuthorization
<1> QED
  BY <1>2, <1>3, <1>4 DEF Descent, First, Used

(* What Mint writes.                                                       *)
LEMMA MintEffect ==
  ASSUME Promises, Lineage, NEW r \in Request, NEW t \in Token,
         NEW type \in {"access", "refresh"}, NEW life \in Nat, Mint(r, t, type, life)
  PROVE  /\ ~Used(t) /\ Used(t)' /\ Live(t)'
         /\ \A u \in Token : u # t => tokens'[u] = tokens[u]
         /\ tokens'[t].type = type /\ tokens'[t].by = r
         /\ tokens'[t].root = work[r].root /\ work[r].root \in Token
         /\ tokens'[t].authorization = work[r].authorization
         /\ tokens'[t].expires_at = work[r].at + life
         /\ type \in pending[r] /\ Owes(r)
         /\ pending'[r] = pending[r] \ {type}
         /\ UNCHANGED <<authz, pc, payload, work>>
<1>1. TypeOK /\ HoldsItsData(r)
  BY DEF Promises, Sessions, Shape, Bookkeeping
<1>2. /\ type \in pending[r] /\ tokens[t].state = "unused"
      /\ tokens' = [tokens EXCEPT ![t] =
           Document(type, work[r].authorization, work[r].root, r, work[r].at + life)]
      /\ pending'[r] = pending[r] \ {type}
      /\ UNCHANGED <<authz, pc, payload, work>>
  BY <1>1 DEF Mint, Fresh, Applied, TypeOK
<1>3. /\ tokens'[t].state = "live" /\ tokens'[t].by = r /\ tokens'[t].root = work[r].root
      /\ tokens'[t].authorization = work[r].authorization /\ tokens'[t].type = type
      /\ tokens'[t].expires_at = work[r].at + life
      /\ \A u \in Token : u # t => tokens'[u] = tokens[u]
  BY <1>1, <1>2 DEF TypeOK, Document
<1>4. Owes(r)
  BY <1>2 DEF Owes, GrantWrites
<1>5. work[r].root \in Token
  BY <1>1, <1>2 DEF HoldsItsData
<1> QED
  BY <1>2, <1>3, <1>4, <1>5 DEF Used, Live

LEMMA DescentContinues ==
  ASSUME Promises, Lineage, Persist, NEW r \in Request, NEW t \in Token,
         MintAccessToken(r, t) \/ MintRefreshToken(r, t)
  PROVE  Descent(t)'
<1>1. PICK type \in {"access", "refresh"}, life \in Nat : Mint(r, t, type, life)
  BY LifetimeAssumption DEF MintAccessToken, MintRefreshToken
<1>2. /\ tokens'[t].type = type /\ tokens'[t].by = r
      /\ tokens'[t].root = work[r].root /\ work[r].root \in Token
      /\ tokens'[t].authorization = work[r].authorization
      /\ Owes(r)
  BY <1>1, MintEffect
<1>3. Origin(r) /\ work[r].root # None /\ r # None
  BY <1>2, NoneAssumption DEF Lineage
<1>4. /\ First(work[r].root, work[r].authorization)
      /\ tokens[work[r].root].type = "code"
  BY <1>2, <1>3 DEF Origin, Serves
<1>5. First(work[r].root, work[r].authorization)' /\ tokens'[work[r].root].type = "code"
  <2>1. work' = work
    BY <1>1, MintEffect
  <2>2. \A c \in Token : First(c, work[r].authorization) =>
          First(c, work[r].authorization)' /\ tokens'[c].type = tokens[c].type
    BY <2>1, FirstPersists DEF First
  <2> QED
    BY <1>2, <1>4, <2>1, <2>2 DEF First
<1>6. authz'[work[r].authorization].state # "unused"
  <2>1. Descent(work[r].root) /\ Used(work[r].root) /\ Shape
    BY <1>2, <1>4 DEF Lineage, First, Promises, Sessions
  <2>2. tokens[work[r].root].authorization = work[r].authorization
    BY <1>4 DEF First
  <2>3. work[r].authorization \in Authorization
    BY <1>2, <2>1, <2>2 DEF Shape, Bookkeeping, Used
  <2> QED
    BY <2>1, <2>2, <2>3 DEF Descent, Persist
<1>7. work' = work
  BY <1>1, MintEffect
<1> QED
  BY <1>2, <1>3, <1>5, <1>6, <1>7 DEF Descent, First

LEMMA StepDescent ==
  ASSUME Promises, Lineage, Persist, [Next]_vars, NEW t \in Token
  PROVE  Descent(t)'
<1>1. Shape
  BY DEF Promises, Sessions
<1>2. CASE Used(t)
  BY <1>1, <1>2, DescentStays
<1>3. CASE ~Used(t) /\ Creates(t)
  BY <1>3, DescentStarts, DescentContinues DEF Creates
<1>4. CASE ~Used(t) /\ ~Creates(t)
  <2>1. ~Used(t)'
    BY <1>4, CreatesNone, CreatesOne DEF NoneCreated, Used
  <2> QED
    BY <2>1 DEF Descent
<1> QED
  BY <1>2, <1>3, <1>4

LEMMA ReceiveOrigin ==
  ASSUME Promises, Lineage, Persist, NEW r \in Request, Receive(r)
  PROVE  Origin(r)'
<1>1. Shape /\ TypeOK /\ HoldsItsData(r) /\ Origin(r) /\ pc[r] = "idle"
  BY DEF Promises, Sessions, Shape, Bookkeeping, Lineage, Receive
<1>2. pending[r] = {} /\ work[r].root = None
  BY <1>1 DEF HoldsItsData, Origin
<1>3. PICK p \in Payload,
           label \in {"ok", "find", "inactive", "describe", "discard", "consume", "narrow", "claims"} :
        /\ Known(p.token) /\ (p.beside \in Token => Known(p.beside))
        /\ Reject(r) \/ Accept(r, p, label)
  BY <1>1, ReceiveAnswers DEF Reached
<1>4. UNCHANGED <<work, pending, tokens>>
  BY <1>3 DEF Reject, Accept
<1>5. ~Owes(r)' /\ pc'[r] \notin {"idle", "drop"} /\ work'[r].root = None /\ pending'[r] = {}
  BY <1>1, <1>2, <1>3, <1>4 DEF Reject, Accept, Goto, Owes, TypeOK
<1>6. ASSUME NEW t \in Token, Presents(r, t)' PROVE Known(t)'
  <2>1. payload'[r] \in {payload[r], p}
    BY <1>1, <1>3 DEF Reject, Accept, TypeOK
  <2>2. Presents(r, t) \/ t \in {p.token, p.beside}
    BY <1>6, <2>1 DEF Presents
  <2>3. Known(t)
    BY <1>1, <1>3, <2>2 DEF Origin
  <2> QED
    BY <1>1, <2>3, KnownStays
<1> QED
  BY <1>5, <1>6 DEF Origin, Serves

(* Consuming a grant, or looking one up: its origin is the request's now.  *)
LEMMA HoldOrigin ==
  ASSUME Promises, Lineage, Persist, NEW r \in Request,
         ConsumeCode(r) \/ ConsumeRefreshToken(r) \/ FindAccessToken(r)
  PROVE  Origin(r)'
<1> DEFINE t == Redeemed(r)
<1>1. pc[r] \in {"consume", "find"} /\ pc[r] \in Running
  BY DEF ConsumeCode, ConsumeRefreshToken, FindAccessToken, Consumable, Running
<1>2. Shape /\ TypeOK /\ HoldsItsData(r) /\ t \in Token /\ Used(t) /\ payload[r] \in Payload
  BY <1>1, AtWork DEF Shape, Used
<1>0. FindAccessToken(r) => t = payload[r].token
  BY <1>2, AtWork DEF FindAccessToken, Running, Promise, Entitled, Revoking, Redeemed
<1>3. Descent(t) /\ tokens[t].root \in Token /\ Origin(r)
  BY <1>2 DEF Lineage, TypeOK, TokenDoc
<1>4. /\ work'[r].root = tokens[t].root /\ work'[r].authorization = tokens[t].authorization
      /\ payload' = payload
  BY <1>0, <1>2 DEF ConsumeCode, ConsumeRefreshToken, Hold, FindAccessToken, AuthorizationOf, TypeOK
<1>5. /\ pc'[r] \in {"drop", "mint", "delete"}
      /\ pc'[r] = "drop" => pending'[r] = {}
      /\ pc'[r] = "delete" => pending'[r] \subseteq {"token", "victim"}
  BY <1>1, <1>2 DEF ConsumeCode, ConsumeRefreshToken, FindAccessToken, Goto, TypeOK, HoldsItsData
<1>6. pc'[r] \in {"drop", "mint"} => tokens[tokens[t].root].type = "code"
  <2>1. pc'[r] \in {"drop", "mint"} => tokens[t].type \in {"code", "refresh"}
    BY <1>1, <1>2 DEF ConsumeCode, ConsumeRefreshToken, FindAccessToken, Consumable, Finds, Goto, TypeOK
  <2> QED
    BY <1>2, <1>3, <2>1 DEF Descent, First
<1>7. First(tokens[t].root, tokens[t].authorization)
  BY <1>2, <1>3 DEF Descent
<1>8. /\ First(work[r].root, work[r].authorization)'
      /\ tokens'[work'[r].root].type = tokens[tokens[t].root].type
      /\ work'[r].root # None
  BY <1>3, <1>4, <1>7, FirstPersists, NoneAssumption DEF First
<1> HIDE DEF t
<1>10. \A u \in Token : Presents(r, u)' => Known(u)'
  BY <1>2, <1>3, <1>4, KnownStays DEF Origin, Presents
<1>11. "victim" \in pending'[r] => tokens'[work'[r].victim].type = "access"
  <2>1. "victim" \in pending'[r] => FindAccessToken(r)
    BY <1>1, <1>2 DEF ConsumeCode, ConsumeRefreshToken, HoldsItsData, TypeOK
  <2>2. ASSUME FindAccessToken(r), "victim" \in pending'[r]
        PROVE  tokens'[work'[r].victim].type = "access"
    BY <1>2, <2>2 DEF FindAccessToken, AccessTokensOf, TypeOK
  <2> QED
    BY <2>1, <2>2
<1>12. /\ Serves(r)' => pc'[r] \in {"drop", "mint"}
       /\ Owes(r)' => pc'[r] = "mint"
  BY <1>5 DEF Serves, Owes, GrantWrites
<1> QED
  BY <1>5, <1>6, <1>8, <1>10, <1>11, <1>12 DEF Origin

LEMMA StepOrigin ==
  ASSUME Promises, Lineage, Persist, [Next]_vars, NEW q \in Request
  PROVE  Origin(q)'
<1>1. Shape /\ TypeOK /\ HoldsItsData(q) /\ Origin(q)
  BY DEF Promises, Sessions, Shape, Bookkeeping, Lineage
<1>2. CASE pc'[q] = pc[q] /\ payload'[q] = payload[q] /\ work'[q] = work[q] /\ pending'[q] = pending[q]
  BY <1>1, <1>2, OriginStays DEF Origin, Serves, Owes
<1>3. CASE Receive(q)
  BY <1>3, ReceiveOrigin
<1>4. CASE ConsumeCode(q) \/ ConsumeRefreshToken(q) \/ FindAccessToken(q)
  BY <1>4, HoldOrigin
<1>5. CASE DropAccessToken(q)
  <2>1. /\ pc[q] = "drop" /\ pc'[q] = "mint"
        /\ work'[q].root = work[q].root /\ work'[q].authorization = work[q].authorization
        /\ payload' = payload /\ "victim" \notin pending'[q]
    BY <1>1, <1>5 DEF DropAccessToken, Goto, TypeOK, Work
  <2> QED
    BY <1>1, <2>1, OriginStays DEF Serves
<1>6. ASSUME pending'[q] \subseteq pending[q], UNCHANGED <<payload, work>>,
             pc'[q] # "drop", pc'[q] # "idle", 
             pc'[q] = "ok" => pending[q] = {},
             pc'[q] # pc[q] => pending[q] = {} \/ pending'[q] = {} \/ pc'[q] = "error"
      PROVE  Origin(q)'
  BY <1>1, <1>6, OriginStays DEF Origin, Serves, Owes
<1>7. CASE \/ NarrowScope(q) \/ DiscardCode(q) \/ ConsumeNothing(q) \/ ConsumeOrphan(q)
           \/ DescribeToken(q) \/ ServeClaims(q) \/ Respond(q) \/ Fail(q) \/ Crash(q)
  <2>1. /\ pending'[q] \subseteq pending[q] /\ UNCHANGED <<payload, work>>
        /\ pc'[q] \notin {"drop", "idle"}
        /\ pending[q] = {} \/ pending'[q] = {}
        /\ pc'[q] = "ok" => pending[q] = {}
    BY <1>1, <1>7
       DEF NarrowScope, FirstDeletion, DiscardCode, ConsumeNothing, ConsumeOrphan,
           DescribeToken, ServeClaims, Respond, Fail, Crash, Goto, HoldsItsData, TypeOK
  <2> QED
    BY <1>6, <2>1
<1>8. ASSUME NEW write, Applied(q, write), UNCHANGED <<payload, work>>,
             pc' = pc \/ Goto(q, "error")
      PROVE  Origin(q)'
  <2>1. /\ pending'[q] \subseteq pending[q] /\ pending[q] # {}
        /\ pc'[q] = pc[q] \/ pc'[q] = "error"
    BY <1>1, <1>8 DEF Applied, Goto, TypeOK
  <2>2. pc[q] \notin {"drop", "idle", "ok"}
    BY <1>1, <2>1 DEF HoldsItsData, Origin
  <2> QED
    BY <1>6, <1>8, <2>1, <2>2
<1>9. CASE \/ \E t \in Token : MintAccessToken(q, t) \/ MintRefreshToken(q, t)
           \/ ExtendAuthorization(q) \/ DeleteToken(q) \/ DeleteAccessToken(q)
           \/ \E write \in Write : FailWrite(q, write)
  BY <1>8, <1>9 DEF MintAccessToken, MintRefreshToken, Mint, ExtendAuthorization, DeleteToken,
       DeleteAccessToken, Delete, FailWrite
<1>10. CASE Proceed(q) \/ Disturb(q)
  BY <1>4, <1>5, <1>7, <1>9, <1>10 DEF Proceed, Disturb
<1> QED
  BY <1>2, <1>3, <1>10, AloneOrNone, OneRequest DEF OthersSame

LEMMA StepDescended == Descended /\ [Next]_vars => Descended'
<1> SUFFICES ASSUME Descended, [Next]_vars PROVE Descended'
  OBVIOUS
<1>1. Promises /\ Lineage /\ Promises' /\ Persist
  BY StepPromises, StepPersists DEF Descended
<1>2. Lineage'
  BY <1>1, StepDescent, StepOrigin DEF Lineage
<1> QED
  BY <1>1, <1>2 DEF Descended

-----------------------------------------------------------------------------
(* The session of a plain code flow: one grant, one request that serves it. *)
Grants(t, a) ==
  Live(t) /\ tokens[t].type \in {"code", "refresh"} /\ tokens[t].authorization = a
Access(t, a) == Live(t) /\ tokens[t].type = "access" /\ tokens[t].authorization = a
Owing(r, a) == Owes(r) /\ work[r].authorization = a
Dropping(r, a) == pc[r] = "drop" /\ work[r].authorization = a

Single(a) ==
  /\ \A t, u \in Token : Grants(t, a) /\ Grants(u, a) => t = u
  /\ \A q, r \in Request : Dropping(q, a) /\ Dropping(r, a) => q = r
  /\ \A t \in Token, r \in Request :
       Grants(t, a) => ~Dropping(r, a) /\ ~(Owing(r, a) /\ "refresh" \in pending[r])
  /\ \A q, r \in Request : Dropping(q, a) => ~(Owing(r, a) /\ "refresh" \in pending[r])

LEMMA PlainIsSingle ==
  ASSUME Descended, NEW a \in Authorization, PlainCodeFlow(a)
  PROVE  Single(a)
<1>1. Shape /\ TypeOK /\ NoForkedSession /\ Lineage
  BY DEF Descended, Promises, Sessions, Shape
<1>2. PICK c \in Token : Codes(a) = {c}
  BY DEF PlainCodeFlow
<1>3. \A d \in Token : First(d, a) => d = c
  BY <1>2 DEF PlainCodeFlow, First, Issued, Codes, AuthorizationOf, Used
<1>4. \A t \in Token : Grants(t, a) => Redeemable(t, c)
  <2> SUFFICES ASSUME NEW t \in Token, Grants(t, a) PROVE Redeemable(t, c)
    OBVIOUS
  <2>1. Used(t) /\ Descent(t) /\ tokens[t].root \in Token
    BY <1>1 DEF Grants, Live, Used, Lineage, TypeOK, TokenDoc
  <2> QED
    BY <1>3, <2>1 DEF Grants, Redeemable, Descent
<1>5. \A r \in Request :
        Dropping(r, a) \/ (Owing(r, a) /\ "refresh" \in pending[r]) => Redeeming(r, c)
  <2> SUFFICES ASSUME NEW r \in Request,
                      Dropping(r, a) \/ (Owing(r, a) /\ "refresh" \in pending[r])
               PROVE  Redeeming(r, c)
    OBVIOUS
  <2>1. Serves(r) /\ Origin(r) /\ work[r] \in Work /\ work[r].authorization = a
    BY <1>1 DEF Dropping, Owing, Serves, Lineage, TypeOK
  <2>2. First(work[r].root, a) /\ work[r].root \in Token
    BY <2>1 DEF Origin, Work
  <2> QED
    BY <1>3, <2>2 DEF Dropping, Redeeming
<1>6. \A r \in Request : Dropping(r, a) => ~(Owing(r, a) /\ "refresh" \in pending[r])
  BY <1>1 DEF Dropping, Shape, Bookkeeping, HoldsItsData
<1> QED
  BY <1>1, <1>4, <1>5, <1>6 DEF NoForkedSession, Single

(* A flow that is plain was plain before, or starts with its code.         *)
LEMMA PlainStays ==
  ASSUME Descended, Persist, [Next]_vars, NEW a \in Authorization, PlainCodeFlow(a)'
  PROVE  \/ PlainCodeFlow(a)
         \/ /\ \E t \in Token : IssueCode(a, t)
            /\ \A c \in Token : ~First(c, a)
<1>1. Promises /\ Lineage
  BY DEF Descended
<1>2. PICK c \in Token : Codes(a)' = {c}
  BY DEF PlainCodeFlow
<1>3. \A t \in Token : Used(t) => Used(t)' /\ SameDocument(t)
  BY DEF Persist
<1>4. \A t \in Issued : AuthorizationOf(t) = a => tokens[t].type = "code" /\ t = c
  <2> SUFFICES ASSUME NEW t \in Issued, AuthorizationOf(t) = a
               PROVE  tokens[t].type = "code" /\ t = c
    OBVIOUS
  <2>1. t \in Token /\ t \in Issued' /\ tokens'[t].authorization = a /\ tokens'[t].type = tokens[t].type
    BY <1>3 DEF Issued, Used, SameDocument, AuthorizationOf
  <2>2. tokens'[t].type = "code"
    BY <2>1 DEF PlainCodeFlow, AuthorizationOf
  <2> QED
    BY <1>2, <2>1, <2>2 DEF Codes, Issued, AuthorizationOf
<1>5. CASE Used(c)
  <2>1. c \in Codes(a)
    BY <1>2, <1>3, <1>5 DEF Codes, Used, SameDocument, AuthorizationOf
  <2>2. ASSUME NEW t \in Codes(a) PROVE t \in Codes(a)'
    BY <1>3, <2>2 DEF Codes, Used, SameDocument, AuthorizationOf
  <2>3. Codes(a) = {c}
    BY <1>2, <2>1, <2>2
  <2> QED
    BY <1>4, <2>3 DEF PlainCodeFlow
<1>6. CASE ~Used(c)
  <2>1. Used(c)' /\ tokens'[c].type = "code" /\ tokens'[c].authorization = a
    BY <1>2 DEF Codes, Used, AuthorizationOf
  <2>2. Creates(c)
    BY <1>1, <1>6, <2>1, CreatesNone, CreatesOne DEF NoneCreated, Used
  <2>3. ASSUME NEW r \in Request, MintAccessToken(r, c) \/ MintRefreshToken(r, c)
        PROVE  FALSE
    <3>1. PICK type \in {"access", "refresh"}, life \in Nat : Mint(r, c, type, life)
      BY <2>3, LifetimeAssumption DEF MintAccessToken, MintRefreshToken
    <3> QED
      BY <1>1, <2>1, <3>1, MintEffect
  <2>4. PICK b \in Authorization : IssueCode(b, c) \/ IssueFrontChannelToken(b, c)
    BY <2>2, <2>3 DEF Creates
  <2>5. b = a /\ IssueCode(a, c)
    BY <1>1, <2>1, <2>4, DescentStarts DEF First
  <2>6. \A d \in Token : ~First(d, a)
    BY <1>4, <1>6 DEF First, Issued, Used, AuthorizationOf
  <2> QED
    BY <2>5, <2>6
<1> QED
  BY <1>5, <1>6

(* While its flow is plain: one access token, one request that owes the     *)
(* next ones, and no access token while one is owed or a code is left.     *)
Sole(a) ==
  /\ \A t, u \in Token : Access(t, a) /\ Access(u, a) => t = u
  /\ \A q, r \in Request : Owing(q, a) /\ Owing(r, a) => q = r
  /\ \A r \in Request : Owing(r, a) /\ "access" \in pending[r] => \A t \in Token : ~Access(t, a)
  /\ \A q, r \in Request : Dropping(q, a) => ~Owing(r, a)
  /\ \A t \in Token, r \in Request : Grants(t, a) /\ Owing(r, a) => tokens[t].by = r
  /\ \A t, u \in Token : Grants(t, a) /\ tokens[t].type = "code" => ~Access(u, a)

(* Once a refresh token is revoked, nothing of its flow can come any more. *)
Gone(t) == tokens[t].type = "refresh" /\ tokens[t].state = "revoked"

Buried(a) ==
  \A t \in Token : Gone(t) /\ tokens[t].authorization = a =>
    /\ \A u \in Token : ~Grants(u, a)
    /\ \A r \in Request : ~Owing(r, a) /\ ~Dropping(r, a)

Sound(a) == PlainCodeFlow(a) => Sole(a) /\ Buried(a)

(* Nobody serves the authorization who did not serve it before.            *)
NoneServes(a) ==
  \A r \in Request :
    /\ Owing(r, a)' => Owing(r, a) /\ ("access" \in pending'[r] => "access" \in pending[r])
    /\ Dropping(r, a)' => Dropping(r, a)

NoneAdded(a) ==
  \A t \in Token :
    /\ Grants(t, a)' => Grants(t, a) /\ SameDocument(t)
    /\ Access(t, a)' => Access(t, a)

LEMMA NoneCreatedAdded ==
  ASSUME NoneCreated, NEW a PROVE NoneAdded(a)
BY DEF NoneCreated, NoneAdded, Grants, Access, SameDocument

LEMMA SoleStays ==
  ASSUME NEW a \in Authorization, Sole(a), NoneServes(a), NoneAdded(a)
  PROVE  Sole(a)'
<1>1. /\ \A t, u \in Token : Access(t, a)' /\ Access(u, a)' => t = u
      /\ \A q, r \in Request : Owing(q, a)' /\ Owing(r, a)' => q = r
      /\ \A r \in Request : Owing(r, a)' /\ "access" \in pending'[r] => \A t \in Token : ~Access(t, a)'
      /\ \A q, r \in Request : Dropping(q, a)' => ~Owing(r, a)'
  BY DEF Sole, NoneServes, NoneAdded
<1>2. \A t \in Token, r \in Request : Grants(t, a)' /\ Owing(r, a)' => tokens'[t].by = r
  BY DEF Sole, NoneServes, NoneAdded, SameDocument
<1>3. \A t, u \in Token : Grants(t, a)' /\ tokens'[t].type = "code" => ~Access(u, a)'
  BY DEF Sole, NoneAdded, SameDocument
<1> QED
  BY <1>1, <1>2, <1>3 DEF Sole

(* A refresh token is revoked while it is the grant of its flow.           *)
LEMMA GoneBefore ==
  ASSUME Descended, [Next]_vars, NEW t \in Token, Gone(t)', ~Gone(t)
  PROVE  Live(t) /\ \E r \in Request : DeleteToken(r) /\ payload[r].token = t
<1>1. Promises /\ Lineage /\ TypeOK
  BY DEF Descended, Promises, Sessions, Shape
<1>2. ~Creates(t)
  <2>1. ~Live(t)'
    BY DEF Gone, Live
  <2> QED
    BY <1>1, <2>1, CreatesOne
<1>3. tokens'[t] # tokens[t]
  BY DEF Gone
<1>4. \A u \in Token : ~Creates(u)
  BY <1>1, <1>2, <1>3, CreatesOne
<1>5. tokens'[t].type = tokens[t].type
  BY <1>1, <1>4, CreatesNone DEF NoneCreated, SameDocument
<1>6. ASSUME NEW u \in Token, NEW reason \in {"consumed", "dropped", "expired"}, Remove(u, reason)
      PROVE  FALSE
  BY <1>1, <1>3, <1>6 DEF Remove, Gone, TypeOK
<1>7. tokens' # tokens
  BY <1>3
<1>8. \A r \in Request : ~Receive(r) /\ ~Disturb(r)
  BY <1>1, <1>7, ReceiveAnswers
     DEF Promises, Sessions, Reject, Accept, Disturb, Fail, Crash, FailWrite
<1>9. ~UNCHANGED vars /\ ~Tick /\ ~Reap /\ \A a \in Authorization : ~Issue(a)
  BY <1>4, <1>6, <1>7 DEF vars, Tick, Reap, ReapToken, ReapAuthorization, Issue, Remove,
       CreateAuthorization, Consent, Creates
<1>10. PICK r \in Request : Proceed(r)
  BY <1>8, <1>9 DEF Next
<1>11. ~ConsumeCode(r) /\ ~ConsumeRefreshToken(r) /\ ~ConsumeOrphan(r)
  <2> SUFFICES ASSUME ConsumeCode(r) \/ ConsumeRefreshToken(r) \/ ConsumeOrphan(r)
               PROVE  FALSE
    OBVIOUS
  <2>1. pc[r] \in Running /\ Remove(Redeemed(r), "consumed")
    BY DEF ConsumeCode, ConsumeRefreshToken, ConsumeOrphan, Consumable, Running
  <2> QED
    BY <1>1, <1>6, <2>1, AtWork
<1>16. ~DiscardCode(r)
  BY <1>1, <1>6, GrantsAreTokens DEF DiscardCode, Promises, Sessions
<1>12. ~DropAccessToken(r)
  BY <1>6, <1>7 DEF DropAccessToken, AccessTokensOf
<1>13. ~DeleteAccessToken(r)
  <2> SUFFICES ASSUME DeleteAccessToken(r) PROVE FALSE
    OBVIOUS
  <2>1. "victim" \in pending[r] /\ Remove(work[r].victim, "revoked")
    BY <1>7 DEF DeleteAccessToken, Delete, Applied
  <2>2. work[r].victim \in Token /\ tokens[work[r].victim].type = "access"
    BY <1>1, <2>1, AtWork DEF HoldsItsData, Lineage, Origin
  <2> QED
    BY <1>1, <1>3, <1>5, <2>1, <2>2 DEF Remove, TypeOK, Gone
<1>14. DeleteToken(r)
  BY <1>4, <1>7, <1>10, <1>11, <1>12, <1>13, <1>16
     DEF Proceed, Creates, NarrowScope, ConsumeNothing, ExtendAuthorization, FindAccessToken,
         DescribeToken, ServeClaims, Respond
<1>15. pending[r] # {} /\ Live(payload[r].token) /\ Remove(payload[r].token, "revoked")
  BY <1>7, <1>14 DEF DeleteToken, Delete, Applied
<1> QED
  BY <1>1, <1>3, <1>14, <1>15, AtWork DEF Remove, TypeOK

(* Only consuming a grant, or dropping the access token, adds to what a    *)
(* request owes.                                                           *)
Starts(r) == ConsumeCode(r) \/ ConsumeRefreshToken(r) \/ DropAccessToken(r)

LEMMA QuietRequest ==
  ASSUME Descended, [Next]_vars, NEW q \in Request, ~Starts(q)
  PROVE  /\ Owes(q)' => Owes(q)
         /\ \A write \in GrantWrites : write \in pending'[q] => write \in pending[q]
         /\ pc'[q] = "drop" => pc[q] = "drop"
         /\ Serves(q)' => work'[q].authorization = work[q].authorization
<1>1. Promises /\ Shape /\ TypeOK /\ HoldsItsData(q)
  BY DEF Descended, Promises, Sessions, Shape, Bookkeeping
<1>2. CASE pc'[q] = pc[q] /\ work'[q] = work[q] /\ pending'[q] = pending[q]
  BY <1>2 DEF Owes
<1>3. SUFFICES ASSUME pending'[q] \cap GrantWrites \subseteq pending[q],
                      pc'[q] # "drop",
                      pending'[q] \cap GrantWrites = {} \/ work' = work,
                      Receive(q) \/ Proceed(q) \/ Disturb(q)
               PROVE  /\ Owes(q)' => Owes(q)
                      /\ \A write \in GrantWrites : write \in pending'[q] => write \in pending[q]
                      /\ pc'[q] = "drop" => pc[q] = "drop"
                      /\ Serves(q)' => work'[q].authorization = work[q].authorization
  <2>1. CASE Receive(q)
    <3>1. pc'[q] # "drop" /\ work' = work /\ pending' = pending
      BY <1>1, <2>1, ReceiveAnswers DEF Reject, Accept, Goto, TypeOK, Reached
    <3> QED
      BY <1>3, <2>1, <3>1
  <2>2. CASE Disturb(q)
    <3>1. pc'[q] # "drop" /\ work' = work /\ pending'[q] \subseteq pending[q]
      BY <1>1, <2>2 DEF Disturb, Fail, Crash, FailWrite, Applied, Goto, TypeOK
    <3> QED
      BY <1>3, <2>2, <3>1
  <2>3. CASE FindAccessToken(q)
    <3>1. pc'[q] # "drop" /\ pending'[q] \subseteq {"token", "victim"}
      BY <1>1, <2>3 DEF FindAccessToken, Goto, TypeOK
    <3> QED
      BY <1>3, <2>3, <3>1 DEF GrantWrites, Proceed
  <2>4. CASE Proceed(q) /\ ~FindAccessToken(q)
    <3>1. work' = work /\ pending'[q] \subseteq pending[q] /\ (pc' = pc \/ pc'[q] # "drop")
      BY <1>1, <2>4
         DEF Starts, Proceed, NarrowScope, FirstDeletion, DiscardCode, ConsumeNothing,
             ConsumeOrphan, MintAccessToken, MintRefreshToken, Mint, ExtendAuthorization, Applied, DeleteToken,
             DeleteAccessToken, Delete, DescribeToken, ServeClaims, Respond, Goto, TypeOK
    <3>2. pc' = pc => (pc'[q] = "drop" => pc[q] = "drop")
      OBVIOUS
    <3> QED
      BY <1>3, <2>4, <3>1, <3>2 DEF Owes, GrantWrites
  <2> QED
    BY <1>1, <1>2, <2>1, <2>2, <2>3, <2>4, AloneOrNone, OneRequest DEF OthersSame
<1> QED
  BY <1>3 DEF Owes, Serves, GrantWrites

LEMMA QuietServes ==
  ASSUME Descended, [Next]_vars, NEW a \in Authorization,
         \A r \in Request : Starts(r) => work'[r].authorization # a
  PROVE  NoneServes(a)
<1> SUFFICES ASSUME NEW r \in Request, Owing(r, a)' \/ Dropping(r, a)'
             PROVE  /\ Owing(r, a)' => Owing(r, a) /\ ("access" \in pending'[r] => "access" \in pending[r])
                    /\ Dropping(r, a)' => Dropping(r, a)
  BY DEF NoneServes
<1>1. ~Starts(r)
  BY DEF Owing, Dropping
<1> QED
  BY <1>1, QuietRequest DEF Owing, Dropping, Serves, GrantWrites

(* What a request holds of the grant it takes.                             *)
LEMMA TakeEffect ==
  ASSUME Descended, NEW r \in Request, ConsumeCode(r) \/ ConsumeRefreshToken(r)
  PROVE  LET t == Redeemed(r)
             a == AuthorizationOf(t) IN
         /\ t \in Token /\ a \in Authorization
         /\ Grants(t, a) /\ tokens'[t].state # "live" /\ NoneCreated
         /\ work'[r].authorization = a
         /\ ConsumeCode(r) => tokens[t].type = "code" /\ pc'[r] = "mint"
         /\ ConsumeRefreshToken(r) => pc'[r] = "drop" /\ pending'[r] = {}
         /\ tokens[t].by # None => tokens[t].by \in Request /\ pending[tokens[t].by] = {}
<1> DEFINE t == Redeemed(r)
<1>1. pc[r] = "consume" /\ pc[r] \in Running /\ Live(t) /\ Remove(t, "consumed")
  BY DEF ConsumeCode, ConsumeRefreshToken, Consumable, Finds, Running
<1>2. /\ Promises /\ Lineage /\ Shape /\ TypeOK /\ t \in Token /\ HoldsItsData(r)
      /\ payload[r] \in Payload /\ AuthorizationOf(t) \in Authorization
  BY <1>1, AtWork DEF Descended, Shape, Source
<1>3. tokens[t].type \in {"code", "refresh"} /\ (ConsumeCode(r) => tokens[t].type = "code")
  BY DEF ConsumeCode, ConsumeRefreshToken, Consumable, Finds
<1>4. /\ work'[r].authorization = AuthorizationOf(t)
      /\ ConsumeCode(r) => pc'[r] = "mint"
      /\ ConsumeRefreshToken(r) => pc'[r] = "drop" /\ pending'[r] = {}
  BY <1>1, <1>2 DEF ConsumeCode, ConsumeRefreshToken, Hold, Goto, TypeOK, HoldsItsData
<1>5. NoneCreated /\ tokens'[t].state # "live"
  <2>1. "consumed" \in TokenState \ {"unused", "live"}
    BY DEF TokenState
  <2> HIDE DEF t
  <2> QED
    BY <1>1, <1>2, <2>1, RemovedNoneCreated DEF Live
<1>6. tokens[t].by # None => tokens[t].by \in Request /\ pending[tokens[t].by] = {}
  <2>1. Known(t)
    BY <1>2 DEF Lineage, Origin, Presents, Redeemed
  <2> QED
    BY <1>2, <2>1 DEF Known, Lineage, Origin, TypeOK, TokenDoc
<1> QED
  BY <1>1, <1>2, <1>3, <1>4, <1>5, <1>6 DEF Grants, AuthorizationOf

LEMMA DropEffect ==
  ASSUME Descended, NEW r \in Request, DropAccessToken(r)
  PROVE  LET a == work[r].authorization IN
         /\ Dropping(r, a) /\ a \in Authorization /\ NoneCreated
         /\ work'[r].authorization = a /\ pc'[r] = "mint"
         /\ \A t \in Token : Access(t, a)' => \E u \in Token : u # t /\ Access(u, a)
<1> DEFINE a == work[r].authorization
<1>1. Promises /\ Shape /\ TypeOK /\ pc[r] = "drop" /\ a \in Authorization
  BY DEF Descended, Promises, Sessions, Shape, Bookkeeping, HoldsItsData, DropAccessToken
<1>2. work'[r].authorization = a /\ pc'[r] = "mint"
  BY <1>1 DEF DropAccessToken, Goto, TypeOK, Work
<1>3. CASE UNCHANGED tokens /\ AccessTokensOf(a) = {}
  <2>1. NoneCreated
    BY <1>3, SameNoneCreated
  <2>2. \A t \in Token : ~Access(t, a)
    BY <1>3 DEF AccessTokensOf, Access, AuthorizationOf
  <2>3. \A t \in Token : ~Access(t, a)'
    BY <1>2, <1>3, <2>2 DEF Access, Live
  <2> QED
    BY <1>1, <1>2, <2>1, <2>3 DEF Dropping
<1>4. ASSUME NEW v \in AccessTokensOf(a), Remove(v, "dropped")
      PROVE  /\ NoneCreated
             /\ \A t \in Token : Access(t, a)' => \E u \in Token : u # t /\ Access(u, a)
  <2>1. v \in Token /\ Live(v) /\ Access(v, a)
    BY DEF AccessTokensOf, Access, AuthorizationOf
  <2>2. "dropped" \in TokenState \ {"unused", "live"}
    BY DEF TokenState
  <2>3. NoneCreated /\ ~Live(v)'
    BY <1>1, <1>4, <2>1, <2>2, RemovedNoneCreated
  <2>4. \A t \in Token : Access(t, a)' => t # v
    BY <2>3 DEF Access
  <2> QED
    BY <2>1, <2>3, <2>4
<1> QED
  BY <1>1, <1>2, <1>3, <1>4 DEF DropAccessToken, Dropping

(* The first code of an authorization: nothing else belongs to it.         *)
LEMMA FirstCodeSound ==
  ASSUME Descended, Persist, NEW a \in Authorization, NEW t \in Token, IssueCode(a, t),
         \A c \in Token : ~First(c, a)
  PROVE  Sole(a)' /\ Buried(a)'
<1>1. Promises /\ Lineage /\ Shape /\ TypeOK
  BY DEF Descended, Promises, Sessions, Shape
<1>2. \A u \in Token : Used(u) => tokens[u].authorization # a
  BY <1>1 DEF Lineage, Descent, TypeOK, TokenDoc
<1>3. \A r \in Request : ~Owing(r, a) /\ ~Dropping(r, a)
  <2> SUFFICES ASSUME NEW r \in Request, Serves(r), work[r].authorization = a PROVE FALSE
    BY DEF Serves, Owing, Dropping
  <2>1. Origin(r) /\ work[r] \in Work
    BY <1>1 DEF Lineage, TypeOK
  <2> QED
    BY <2>1 DEF Origin, Work
<1>4. /\ \A u \in Token : u # t => tokens'[u] = tokens[u]
      /\ Live(t)' /\ tokens'[t].type = "code"
  BY <1>1, CreatesOne, DescentStarts DEF Creates
<1>5. \A r \in Request : ~Owing(r, a)' /\ ~Dropping(r, a)'
  BY <1>3 DEF IssueCode, Owing, Owes, Dropping
<1>6. \A u \in Token : ~Access(u, a)' /\ ~(Gone(u)' /\ tokens'[u].authorization = a)
  BY <1>2, <1>4 DEF Access, Gone, Live, Used
<1> QED
  BY <1>5, <1>6 DEF Sole, Buried

(* Who takes the grant of a flow, or drops its access token, is alone.     *)
LEMMA StartSound ==
  ASSUME Descended, [Next]_vars, NEW a \in Authorization, PlainCodeFlow(a),
         Sole(a), Buried(a),
         NEW r \in Request, Starts(r), work'[r].authorization = a
  PROVE  Sole(a)' /\ Buried(a)'
<1>1. Promises /\ Lineage /\ Shape /\ TypeOK /\ Single(a)
  BY PlainIsSingle DEF Descended, Promises, Sessions, Shape
<1>2. /\ NoneCreated
      /\ Dropping(r, a) \/ \E t \in Token : Grants(t, a)
  BY TakeEffect, DropEffect DEF Starts
<1>3. NoneAdded(a)
  BY <1>2, NoneCreatedAdded
<1>4. \A q \in Request : ~Owing(q, a)
  <2>1. CASE Dropping(r, a)
    BY <2>1 DEF Sole
  <2>2. CASE ConsumeCode(r) \/ ConsumeRefreshToken(r)
    <3>1. PICK t \in Token :
            /\ Grants(t, a)
            /\ tokens[t].by # None => tokens[t].by \in Request /\ pending[tokens[t].by] = {}
      BY <2>2, TakeEffect
    <3> QED
      BY <3>1, NoneAssumption DEF Sole, Owing, Owes
  <2> QED
    BY <2>1, <2>2, DropEffect DEF Starts
<1>5. \A q \in Request : q # r =>
        pc'[q] = pc[q] /\ work'[q] = work[q] /\ pending'[q] = pending[q]
  BY <1>1, OneRequest DEF Starts, Proceed, OthersSame
<1>6. \A q \in Request : Owing(q, a)' => q = r /\ ~ConsumeRefreshToken(r)
  BY <1>4, <1>5, TakeEffect DEF Owing, Owes
<1>7. \A t \in Token : ~Grants(t, a)'
  <2>1. CASE DropAccessToken(r)
    <3>1. Dropping(r, a)
      BY <2>1, DropEffect
    <3> QED
      BY <1>1, <1>3, <3>1 DEF Single, NoneAdded
  <2>2. CASE ConsumeCode(r) \/ ConsumeRefreshToken(r)
    <3>1. PICK t \in Token : Grants(t, a) /\ tokens'[t].state # "live"
      BY <2>2, TakeEffect
    <3> QED
      BY <1>1, <1>3, <3>1 DEF Single, NoneAdded, Grants, Live
  <2> QED
    BY <2>1, <2>2 DEF Starts
<1>8. ~ConsumeRefreshToken(r) => \A t \in Token : ~Access(t, a)'
  <2>1. CASE ConsumeCode(r)
    <3>1. PICK t \in Token : Grants(t, a) /\ tokens[t].type = "code"
      BY <2>1, TakeEffect
    <3> QED
      BY <1>3, <3>1 DEF Sole, NoneAdded
  <2>2. CASE DropAccessToken(r)
    <3>1. \A t \in Token : Access(t, a)' => \E u \in Token : u # t /\ Access(u, a)
      BY <2>2, DropEffect
    <3> QED
      BY <1>3, <3>1 DEF Sole, NoneAdded
  <2> QED
    BY <2>1, <2>2 DEF Starts
<1>9. \A q \in Request : Dropping(q, a)' => \A p \in Request : ~Owing(p, a)'
  <2> SUFFICES ASSUME NEW q \in Request, Dropping(q, a)', NEW p \in Request, Owing(p, a)'
               PROVE  FALSE
    OBVIOUS
  <2>1. p = r /\ (ConsumeCode(r) \/ DropAccessToken(r))
    BY <1>6 DEF Starts
  <2>2. pc'[r] = "mint"
    BY <2>1, TakeEffect, DropEffect
  <2>3. q # r /\ Dropping(q, a)
    BY <1>5, <2>2 DEF Dropping
  <2> QED
    BY <1>1, <1>2, <2>3 DEF Single
<1>10. Sole(a)'
  BY <1>3, <1>6, <1>7, <1>8, <1>9 DEF Sole, NoneAdded
<1>11. Buried(a)'
  <2> SUFFICES ASSUME NEW u \in Token, Gone(u)', tokens'[u].authorization = a PROVE FALSE
    BY DEF Buried
  <2>1. pc'[r] # pc[r]
    BY <1>1 DEF Starts, ConsumeCode, ConsumeRefreshToken, Consumable, DropAccessToken, Goto, TypeOK
  <2>2. Gone(u)
    BY <2>1, GoneBefore DEF DeleteToken, Delete
  <2>3. tokens[u].authorization = a
    BY <1>2 DEF NoneCreated, SameDocument
  <2> QED
    BY <1>2, <2>2, <2>3 DEF Buried
<1> QED
  BY <1>10, <1>11

(* Storing a token pays what the request owes.                             *)
LEMMA MintSound ==
  ASSUME Descended, [Next]_vars, NEW a \in Authorization, PlainCodeFlow(a),
         Sole(a), Buried(a), NoneServes(a),
         NEW r \in Request, NEW t \in Token, NEW type \in {"access", "refresh"},
         NEW life \in Nat, Mint(r, t, type, life), work[r].authorization = a
  PROVE  Sole(a)' /\ Buried(a)'
<1>1. Promises /\ Lineage /\ TypeOK /\ Single(a)
  BY PlainIsSingle DEF Descended, Promises, Sessions, Shape
<1>2. /\ ~Used(t) /\ Live(t)'
      /\ \A u \in Token : u # t => tokens'[u] = tokens[u]
      /\ tokens'[t].type = type /\ tokens'[t].by = r /\ tokens'[t].authorization = a
      /\ type \in pending[r] /\ Owing(r, a) /\ pending'[r] = pending[r] \ {type}
  BY <1>1, MintEffect DEF Owing
<1>3. \A u \in Token : u # t =>
        /\ Grants(u, a)' <=> Grants(u, a)
        /\ Access(u, a)' <=> Access(u, a)
        /\ Gone(u)' <=> Gone(u)
  BY <1>2 DEF Grants, Access, Gone, Live
<1>4. /\ Grants(t, a)' <=> type = "refresh"
      /\ Access(t, a)' <=> type = "access"
      /\ ~Gone(t)'
  BY <1>2 DEF Grants, Access, Gone, Live
<1>5. \A q \in Request : Owing(q, a)' => q = r
  BY <1>2 DEF NoneServes, Sole
<1>6. \A q \in Request : ~Dropping(q, a)'
  BY <1>2 DEF NoneServes, Sole
<1>7. \A u \in Token : Grants(u, a)' => tokens'[u].by = r /\ tokens'[u].type # "code"
  <2> SUFFICES ASSUME NEW u \in Token, u # t, Grants(u, a)
               PROVE  tokens[u].by = r /\ tokens[u].type # "code"
    BY <1>2, <1>3, <1>4
  <2>1. tokens[u].by = r
    BY <1>2 DEF Sole
  <2>2. Descent(u) /\ Used(u)
    BY <1>1 DEF Lineage, Grants, Live, Used
  <2> QED
    BY <2>1, <2>2, NoneAssumption DEF Descent
<1>8. "access" \in pending[r] => \A u \in Token : ~Access(u, a)
  BY <1>2 DEF Sole
<1>9. \A u, v \in Token : Access(u, a)' /\ Access(v, a)' => u = v
  BY <1>2, <1>3, <1>4, <1>8 DEF Sole
<1>10. \A q \in Request : Owing(q, a)' /\ "access" \in pending'[q] =>
         \A u \in Token : ~Access(u, a)'
  BY <1>2, <1>3, <1>4, <1>5, <1>8
<1>11. Sole(a)'
  BY <1>5, <1>6, <1>7, <1>9, <1>10 DEF Sole
<1>12. Buried(a)'
  <2> SUFFICES ASSUME NEW u \in Token, Gone(u)', tokens'[u].authorization = a PROVE FALSE
    BY DEF Buried
  <2> QED
    BY <1>2, <1>3, <1>4 DEF Buried
<1> QED
  BY <1>11, <1>12

(* A step that starts nothing and creates nothing for the authorization.   *)
LEMMA QuietSound ==
  ASSUME Descended, [Next]_vars, NEW a \in Authorization, PlainCodeFlow(a),
         Sole(a), Buried(a), NoneServes(a),
         \A t \in Token : Creates(t) => tokens'[t].authorization # a
  PROVE  Sole(a)' /\ Buried(a)'
<1>1. Promises /\ Lineage /\ TypeOK /\ Single(a)
  BY PlainIsSingle DEF Descended, Promises, Sessions, Shape
<1>2. NoneAdded(a)
  <2>1. CASE \A t \in Token : ~Creates(t)
    BY <1>1, <2>1, CreatesNone, NoneCreatedAdded
  <2>2. ASSUME NEW t \in Token, Creates(t) PROVE NoneAdded(a)
    <3>1. \A u \in Token : u # t => tokens'[u] = tokens[u]
      BY <1>1, <2>2, CreatesOne
    <3>2. tokens'[t].authorization # a
      BY <2>2
    <3> QED
      BY <3>1, <3>2 DEF NoneAdded, Grants, Access, Live, SameDocument
  <2> QED
    BY <2>1, <2>2
<1>3. Sole(a)'
  BY <1>2, SoleStays
<1>4. ASSUME NEW t \in Token, Gone(t)', tokens'[t].authorization = a
      PROVE  /\ \A u \in Token : ~Grants(u, a)'
             /\ \A r \in Request : ~Owing(r, a)' /\ ~Dropping(r, a)'
  <2>1. CASE Gone(t)
    <3>1. tokens[t].authorization = a
      BY <1>1, <1>4, <2>1, CreatesOne, CreatesNone DEF NoneCreated, SameDocument, Gone, Used
    <3> QED
      BY <1>2, <2>1, <3>1 DEF Buried, NoneAdded, NoneServes
  <2>2. CASE ~Gone(t)
    <3>1. PICK r \in Request : Live(t) /\ DeleteToken(r) /\ payload[r].token = t
      BY <1>4, <2>2, GoneBefore
    <3>2. /\ payload[r] \in Payload /\ Origin(r) /\ Used(t) /\ Descent(t)
          /\ tokens[t].by # None => tokens[t].by \in Request
      BY <1>1, <3>1, AtWork DEF DeleteToken, Delete, Applied, Lineage, Live, Used, TypeOK, TokenDoc
    <3>3. ~Creates(t)
      BY <1>1, <3>2, CreatesOne
    <3>4. SameDocument(t)
      BY <1>1, <3>2, <3>3, CreatesOne, CreatesNone DEF NoneCreated, SameDocument
    <3>5. Grants(t, a) /\ ~Grants(t, a)' /\ tokens[t].by \in Request
      BY <1>4, <3>1, <3>2, <3>4 DEF Grants, Gone, Live, SameDocument, Descent
    <3>6. pending[tokens[t].by] = {}
      <4>1. pc[tokens[t].by] = "ok"
        BY <3>1, <3>2, <3>5, NoneAssumption DEF Origin, Presents, Known
      <4> QED
        BY <1>1, <3>5, <4>1 DEF Lineage, Origin
    <3>7. \A q \in Request : ~Owing(q, a)
      BY <3>5, <3>6 DEF Sole, Owing, Owes
    <3>8. \A u \in Token : ~Grants(u, a)'
      BY <1>1, <1>2, <3>5 DEF Single, NoneAdded
    <3>9. \A q \in Request : ~Dropping(q, a)
      BY <1>1, <3>5 DEF Single
    <3> QED
      BY <3>7, <3>8, <3>9 DEF NoneServes
  <2> QED
    BY <2>1, <2>2
<1> QED
  BY <1>3, <1>4 DEF Buried

LEMMA StepSound ==
  ASSUME Descended, [Next]_vars, NEW a \in Authorization, Sound(a)
  PROVE  Sound(a)'
<1> SUFFICES ASSUME PlainCodeFlow(a)' PROVE Sole(a)' /\ Buried(a)'
  BY DEF Sound
<1>1. Promises /\ Lineage /\ Persist
  BY StepPersists DEF Descended
<1>2. CASE ~PlainCodeFlow(a)
  BY <1>1, <1>2, PlainStays, FirstCodeSound
<1>3. CASE PlainCodeFlow(a)
  <2>1. Sole(a) /\ Buried(a)
    BY <1>3 DEF Sound
  <2>2. ASSUME NEW r \in Request, Starts(r), work'[r].authorization = a
        PROVE  Sole(a)' /\ Buried(a)'
    BY <1>3, <2>1, <2>2, StartSound
  <2>3. CASE \A r \in Request : Starts(r) => work'[r].authorization # a
    <3>1. NoneServes(a)
      BY <2>3, QuietServes
    <3>2. CASE \A t \in Token : Creates(t) => tokens'[t].authorization # a
      BY <1>3, <2>1, <3>1, <3>2, QuietSound
    <3>3. ASSUME NEW t \in Token, Creates(t), tokens'[t].authorization = a
          PROVE  Sole(a)' /\ Buried(a)'
      <4>1. ASSUME NEW b \in Authorization, IssueCode(b, t) \/ IssueFrontChannelToken(b, t)
            PROVE  FALSE
        <5>1. /\ First(t, b)' /\ (IssueCode(b, t) <=> tokens'[t].type = "code")
              /\ ~Used(t) /\ b = a
          BY <1>1, <3>3, <4>1, DescentStarts, CreatesOne DEF First
        <5>2. tokens'[t].type = "code" /\ Codes(a)' = Codes(a)
          <6>1. t \in Issued' /\ AuthorizationOf(t)' = a
            BY <5>1 DEF First, Issued, Used, AuthorizationOf
          <6>2. tokens'[t].type = "code" /\ t \in Codes(a)'
            BY <6>1 DEF PlainCodeFlow, Codes, Issued
          <6>3. \A c \in Codes(a) : c \in Codes(a)'
            BY <1>1 DEF Codes, Persist, SameDocument, Used, AuthorizationOf
          <6> QED
            BY <1>3, <6>2, <6>3 DEF PlainCodeFlow
        <5>3. t \in Codes(a)' /\ t \notin Codes(a)
          BY <5>1, <5>2 DEF Codes, First, Used, AuthorizationOf
        <5> QED
          BY <5>2, <5>3
      <4>2. PICK r \in Request : MintAccessToken(r, t) \/ MintRefreshToken(r, t)
        BY <3>3, <4>1 DEF Creates
      <4>3. PICK type \in {"access", "refresh"}, life \in Nat : Mint(r, t, type, life)
        BY <4>2, LifetimeAssumption DEF MintAccessToken, MintRefreshToken
      <4>4. work[r].authorization = a
        BY <1>1, <3>3, <4>3, MintEffect
      <4> QED
        BY <1>3, <2>1, <3>1, <4>3, <4>4, MintSound
    <3> QED
      BY <3>2, <3>3
  <2> QED
    BY <2>2, <2>3
<1> QED
  BY <1>2, <1>3

LEMMA InitSound ==
  ASSUME Init, NEW a \in Authorization PROVE Sound(a)
<1>1. Codes(a) = {}
  BY DEF Init, Codes
<1> QED
  BY <1>1 DEF Sound, PlainCodeFlow

LEMMA SoundHasOne == (\A a \in Authorization : Sound(a)) => OneAccessToken
BY DEF OneAccessToken, Sound, Sole, AccessTokensOf, Access, AuthorizationOf

Sessioned == Descended /\ \A a \in Authorization : Sound(a)

LEMMA InitSessioned == Init => Sessioned
BY InitPromises, InitLineage, InitSound DEF Sessioned, Descended

LEMMA StepSessioned == Sessioned /\ [Next]_vars => Sessioned'
BY StepDescended, StepSound DEF Sessioned

(* A plain code flow never has two access tokens at a time, whatever       *)
(* requests race, fail half-way or crash: the refresh grant drops the old  *)
(* one first (findOneAndDelete, then Promise.all, in token/index.ts).      *)
THEOREM OneAccessTokenAtATime == Spec => []OneAccessToken
<1>1. Sessioned => OneAccessToken
  BY SoundHasOne DEF Sessioned
<1> QED
  BY <1>1, InitSessioned, StepSessioned, PTL DEF Spec

-----------------------------------------------------------------------------
(* Revocation.  The access token it has found is the only one, and no other *)
(* comes: whoever could still store one would need the refresh token.      *)
Revokes(r) ==
  payload[r].kind = "revoke" /\ pc[r] \in {"delete", "ok"} /\ work[r].root # None

Cleaning(r) ==
  Revokes(r) =>
    LET t == payload[r].token
        a == work[r].authorization
    IN
    /\ tokens[t].root = work[r].root /\ tokens[t].authorization = a
    /\ tokens[t].type = "refresh" /\ tokens[t].state \in {"live", "revoked"}
         /\ PlainCodeFlow(a)
       => \A u \in Token : Access(u, a) => u = work[r].victim /\ "victim" \in pending[r]

LEMMA RevokesBefore ==
  ASSUME Descended, [Next]_vars, NEW r \in Request, Revokes(r)', ~FindAccessToken(r)
  PROVE  /\ Revokes(r)
         /\ payload'[r] = payload[r] /\ work'[r] = work[r]
         /\ "victim" \in pending[r] => "victim" \in pending'[r] \/ DeleteAccessToken(r)
<1>1. Promises /\ Lineage /\ Shape /\ TypeOK /\ Origin(r) /\ Promise(r) /\ HoldsItsData(r)
  BY DEF Descended, Promises, Sessions, Shape, Bookkeeping, Lineage
<1>2. CASE /\ pc'[r] = pc[r] /\ payload'[r] = payload[r]
           /\ work'[r] = work[r] /\ pending'[r] = pending[r]
  BY <1>2 DEF Revokes
<1>3. ~Receive(r)
  <2> SUFFICES ASSUME Receive(r) PROVE FALSE
    OBVIOUS
  <2>1. work' = work /\ pc[r] = "idle"
    BY <1>1, ReceiveAnswers DEF Reject, Accept
  <2> QED
    BY <1>1, <2>1 DEF Origin, Revokes
<1>4. ~Disturb(r) /\ ~ConsumeNothing(r) /\ ~ConsumeOrphan(r) /\ ~NarrowScope(r)
        /\ ~DiscardCode(r) /\ ~Starts(r) /\ ~DescribeToken(r) /\ ~ServeClaims(r)
  BY <1>1 DEF Revokes, DiscardCode, FirstDeletion, Disturb, Fail, Crash, FailWrite, ConsumeNothing, ConsumeOrphan, Starts,
       ConsumeCode, ConsumeRefreshToken, DropAccessToken, NarrowScope, DescribeToken,
       ServeClaims, Goto, TypeOK
<1>5. ASSUME NEW write \in GrantWrites, Applied(r, write), pc' = pc PROVE FALSE
  BY <1>1, <1>5 DEF Revokes, Applied, Origin, Owes
<1>6. /\ \A t \in Token : ~MintAccessToken(r, t) /\ ~MintRefreshToken(r, t)
      /\ ~ExtendAuthorization(r)
  BY <1>5 DEF MintAccessToken, MintRefreshToken, Mint, ExtendAuthorization, GrantWrites
<1>7. CASE DeleteToken(r) \/ DeleteAccessToken(r)
  BY <1>1, <1>7 DEF Revokes, DeleteToken, DeleteAccessToken, Delete, Applied, TypeOK
<1>8. CASE Respond(r)
  <2>1. payload' = payload /\ work' = work /\ pending' = pending
        /\ pc[r] \in {"mint", "delete"}
    BY <1>8 DEF Respond
  <2>2. pc[r] # "mint"
    BY <1>1, <2>1 DEF Revokes, Promise, Entitled, Granting, GrantKind
  <2> QED
    BY <2>1, <2>2 DEF Revokes
<1> QED
  BY <1>1, <1>2, <1>3, <1>4, <1>6, <1>7, <1>8, AloneOrNone, OneRequest
     DEF OthersSame, Proceed, Starts

LEMMA FindCleans ==
  ASSUME Sessioned, NEW r \in Request, FindAccessToken(r)
  PROVE  Cleaning(r)'
<1> DEFINE t == payload[r].token
           a == AuthorizationOf(t)
<1>1. pc[r] = "find" /\ pc[r] \in Running /\ UNCHANGED <<tokens, payload>>
  BY DEF FindAccessToken, Running
<1>2. TypeOK /\ t \in Token /\ a \in Authorization /\ Sound(a)
  BY <1>1, AtWork DEF Sessioned, Descended, Shape
<1>3. /\ work'[r].root = tokens[t].root /\ work'[r].authorization = a
      /\ tokens[t].type = "refresh" /\ AccessTokensOf(a) # {} =>
           work'[r].victim \in AccessTokensOf(a) /\ "victim" \in pending'[r]
  <2>1. PICK v \in IF tokens[t].type = "refresh" /\ AccessTokensOf(a) # {}
                     THEN AccessTokensOf(a) ELSE {None} :
          /\ work' = [work EXCEPT ![r] =
               [authorization |-> a, root |-> tokens[t].root, victim |-> v, at |-> 0]]
          /\ pending' = [pending EXCEPT ![r] =
               IF v = None THEN {"token"} ELSE {"token", "victim"}]
    BY DEF FindAccessToken
  <2>2. AccessTokensOf(a) \subseteq Token /\ None \notin Token
    BY NoneAssumption DEF AccessTokensOf
  <2> QED
    BY <1>2, <2>1, <2>2 DEF TypeOK
<1>4. PlainCodeFlow(a) /\ tokens[t].type = "refresh" =>
        \A u \in Token : Access(u, a) => u = work'[r].victim /\ "victim" \in pending'[r]
  <2>1. \A u \in Token : Access(u, a) <=> u \in AccessTokensOf(a)
    BY DEF Access, AccessTokensOf, AuthorizationOf
  <2>2. AccessTokensOf(a) \subseteq Token
    BY DEF AccessTokensOf
  <2> QED
    BY <1>2, <1>3, <2>1, <2>2 DEF Sound, Sole
<1>5. tokens[t].authorization = a
  BY DEF AuthorizationOf
<1> HIDE DEF a
<1>6. \A u \in Token : Access(u, work[r].authorization)' <=> Access(u, a)
  BY <1>1, <1>3 DEF Access, Live
<1>7. PlainCodeFlow(work[r].authorization)' => PlainCodeFlow(a)
  BY <1>1, <1>3 DEF PlainCodeFlow, Codes, Issued, AuthorizationOf
<1> QED
  BY <1>1, <1>3, <1>4, <1>5, <1>6, <1>7 DEF Cleaning

(* No access token comes to a flow whose refresh token has been handed out *)
(* and is still there, or has been revoked.                                *)
LEMMA NoAccessComes ==
  ASSUME Sessioned, [Next]_vars, NEW a \in Authorization, PlainCodeFlow(a), PlainCodeFlow(a)',
         NEW r \in Request, payload[r] \in Payload, tokens[payload[r].token].type = "refresh",
         tokens[payload[r].token].authorization = a,
         tokens[payload[r].token].state \in {"live", "revoked"},
         NEW u \in Token, Access(u, a)'
  PROVE  Access(u, a)
<1> DEFINE t == payload[r].token
<1>1. /\ Descended /\ Promises /\ Lineage /\ TypeOK /\ Sole(a) /\ Buried(a)
      /\ t \in Token /\ Used(t)
  BY DEF Sessioned, Descended, Promises, Sessions, Shape, Sound, Payload, Used
<1>2. CASE ~Creates(u)
  <2>1. tokens'[u] = tokens[u] \/ NoneCreated
    BY <1>1, <1>2, CreatesOne, CreatesNone
  <2> QED
    BY <2>1 DEF NoneCreated, SameDocument, Access, Live
<1>3. ASSUME Creates(u) PROVE FALSE
  <2>1. ASSUME NEW b \in Authorization, IssueCode(b, u) \/ IssueFrontChannelToken(b, u)
        PROVE  FALSE
    <3>1. First(u, b)' /\ Persist
      BY <1>1, <2>1, DescentStarts, StepPersists
    <3>2. u \in Issued' /\ AuthorizationOf(u)' = a /\ tokens'[u].type # "code"
      BY <3>1 DEF First, Issued, Used, Access, AuthorizationOf
    <3> QED
      BY <3>2 DEF PlainCodeFlow
  <2>2. PICK q \in Request : MintAccessToken(q, u) \/ MintRefreshToken(q, u)
    BY <1>3, <2>1 DEF Creates
  <2>3. Owing(q, a)
    <3>1. PICK type \in {"access", "refresh"}, life \in Nat : Mint(q, u, type, life)
      BY <2>2, LifetimeAssumption DEF MintAccessToken, MintRefreshToken
    <3> QED
      BY <1>1, <3>1, MintEffect DEF Access, Owing
  <2>4. CASE tokens[t].state = "live"
    <3>1. tokens[t].by = q /\ q # None
      BY <1>1, <2>3, <2>4, NoneAssumption DEF Grants, Live, Sole
    <3>2. pc[q] = "ok"
      BY <1>1, <3>1 DEF Lineage, Origin, Presents, Known
    <3> QED
      BY <1>1, <2>3, <3>2 DEF Lineage, Origin, Owing, Owes
  <2>5. CASE tokens[t].state = "revoked"
    BY <1>1, <2>3, <2>5 DEF Gone, Buried
  <2> QED
    BY <2>4, <2>5
<1> QED
  BY <1>2, <1>3

LEMMA StepCleans ==
  ASSUME Sessioned, [Next]_vars, NEW r \in Request, Cleaning(r)
  PROVE  Cleaning(r)'
<1> SUFFICES ASSUME Revokes(r)', ~FindAccessToken(r) PROVE Cleaning(r)'
  BY FindCleans DEF Cleaning
<1>1. /\ Descended /\ Promises /\ Lineage /\ TypeOK /\ Persist /\ Rooted
      /\ Origin(r) /\ Shape
  BY StepPersists DEF Sessioned, Descended, Promises, Sessions, Shape, Lineage
<1>2. /\ Revokes(r)
      /\ payload'[r] = payload[r] /\ work'[r] = work[r]
      /\ "victim" \in pending[r] => "victim" \in pending'[r] \/ DeleteAccessToken(r)
  BY <1>1, RevokesBefore
<1>3. PICK t \in Token : t = payload[r].token /\ payload[r] \in Payload /\ Used(t)
  BY <1>1, <1>2, HasPayload DEF Revokes, Kind, Rooted, Presents, Used
<1>4. SameDocument(t)
  BY <1>1, <1>3 DEF Persist
<1>5. PICK a \in Authorization :
        a = work[r].authorization /\ tokens[t].root = work[r].root /\ tokens[t].authorization = a
  BY <1>1, <1>2, <1>3 DEF Cleaning, Shape, Bookkeeping, Used
<1>6. ASSUME tokens'[t].type = "refresh", tokens'[t].state \in {"live", "revoked"},
             PlainCodeFlow(a)', NEW u \in Token, Access(u, a)'
      PROVE  u = work[r].victim /\ "victim" \in pending'[r]
  <2>1. tokens[t].type = "refresh"
    BY <1>4, <1>6 DEF SameDocument
  <2>2. tokens[t].state \in {"live", "revoked"}
    <3>1. CASE tokens'[t].state = "live"
      <4>1. Live(t)
        BY <1>1, <1>3, <3>1, CreatesNone, CreatesOne DEF NoneCreated, Live
      <4> QED
        BY <4>1 DEF Live
    <3>2. CASE tokens'[t].state = "revoked"
      <4>1. Gone(t)'
        BY <1>6, <3>2 DEF Gone
      <4>2. Gone(t) \/ Live(t)
        BY <1>1, <4>1, GoneBefore
      <4> QED
        BY <4>2 DEF Gone, Live
    <3> QED
      BY <1>6, <3>1, <3>2
  <2>3. PlainCodeFlow(a)
    <3>1. First(work[r].root, a) /\ work[r].root \in Token
      BY <1>1, <1>2, <1>5 DEF Revokes, Origin, TypeOK, Work
    <3> QED
      BY <1>1, <1>6, <3>1, PlainStays
  <2>4. Access(u, a)
    BY <1>3, <1>5, <1>6, <2>1, <2>2, <2>3, NoAccessComes
  <2>5. u = work[r].victim /\ "victim" \in pending[r]
    BY <1>2, <1>3, <1>5, <2>1, <2>2, <2>3, <2>4 DEF Cleaning
  <2>6. ~DeleteAccessToken(r)
    <3> SUFFICES ASSUME DeleteAccessToken(r) PROVE ~Live(u)'
      BY <1>6 DEF Access
    <3>1. Live(u) /\ Remove(u, "revoked")
      BY <2>4, <2>5 DEF DeleteAccessToken, Delete, Access
    <3> QED
      BY <1>1, <3>1 DEF Remove, TypeOK, Live
  <2> QED
    BY <1>2, <2>5, <2>6
<1>7. tokens'[t].root = work[r].root /\ tokens'[t].authorization = a
  BY <1>4, <1>5 DEF SameDocument
<1>8. PlainCodeFlow(work[r].authorization)' <=> PlainCodeFlow(a)'
  BY <1>2, <1>5 DEF PlainCodeFlow, Codes, Issued, AuthorizationOf
<1>9. \A u \in Token : Access(u, work[r].authorization)' <=> Access(u, a)'
  BY <1>2, <1>5 DEF Access
<1> QED
  BY <1>2, <1>3, <1>5, <1>6, <1>7, <1>8, <1>9 DEF Cleaning

LEMMA CleanIsDead ==
  ASSUME Sessioned, \A r \in Request : Cleaning(r)
  PROVE  RevokedSessionIsDead
<1> SUFFICES ASSUME NEW r \in Request,
                    pc[r] = "ok", payload[r].kind = "revoke", work[r].root # None,
                    tokens[payload[r].token].type = "refresh",
                    tokens[payload[r].token].state = "revoked",
                    PlainCodeFlow(work[r].authorization)
             PROVE  /\ AccessTokensOf(work[r].authorization) = {}
                    /\ \A t \in Token : ~Redeemable(t, work[r].root)
                    /\ \A q \in Request : ~Redeeming(q, work[r].root)
  BY DEF RevokedSessionIsDead
<1> DEFINE t == payload[r].token
           a == work[r].authorization
           c == work[r].root
<1>1. Lineage /\ Shape /\ TypeOK /\ Rooted /\ Origin(r)
  BY DEF Sessioned, Descended, Promises, Sessions, Shape, Lineage
<1>2. t \in Token /\ Used(t) /\ tokens[t].authorization = a /\ a \in Authorization /\ c \in Token
  <2>1. t \in Token /\ Used(t)
    BY <1>1, HasPayload DEF Kind, Rooted, Presents, Used
  <2>2. tokens[t].authorization = a
    BY DEF Cleaning, Revokes
  <2> QED
    BY <1>1, <2>1, <2>2 DEF Shape, Bookkeeping, Used, TypeOK, Work
<1>3. Sole(a) /\ Buried(a) /\ Gone(t)
  BY <1>2 DEF Sessioned, Sound, Gone
<1>4. First(c, a)
  BY <1>1 DEF Origin
<1>5. AccessTokensOf(a) = {}
  <2>1. \A u \in Token : ~Access(u, a)
    BY <1>1 DEF Cleaning, Revokes, Origin
  <2> QED
    BY <2>1 DEF AccessTokensOf, Access, AuthorizationOf
<1>6. ASSUME NEW u \in Token, Redeemable(u, c) PROVE FALSE
  <2>1. Used(u) /\ Descent(u)
    BY <1>1, <1>6 DEF Redeemable, Live, Used, Lineage
  <2>2. tokens[u].authorization = a
    BY <1>4, <1>6, <2>1 DEF Descent, First, Redeemable
  <2>3. Grants(u, a)
    BY <1>6, <2>2 DEF Redeemable, Grants
  <2> QED
    BY <1>2, <1>3, <2>3 DEF Buried
<1>7. ASSUME NEW q \in Request, Redeeming(q, c) PROVE FALSE
  <2>1. Serves(q) /\ Origin(q) /\ work[q].root = c /\ c # None
    BY <1>1, <1>7, <1>2, NoneAssumption DEF Redeeming, Serves, Owes, GrantWrites, Lineage
  <2>2. work[q].authorization = a
    BY <1>4, <2>1 DEF Origin, First
  <2>3. Owing(q, a) \/ Dropping(q, a)
    BY <2>1, <2>2 DEF Owing, Dropping, Serves
  <2> QED
    BY <1>2, <1>3, <2>3 DEF Buried
<1> QED
  BY <1>5, <1>6, <1>7

(* When a revocation that is answered with success has itself removed the  *)
(* refresh token, its plain code flow has no access token left, no grant,  *)
(* and no request that will store one (findOne, then Promise.all, in       *)
(* token/revocation.ts).  Of a refresh token that another request redeemed *)
(* in the meantime nothing is said: that session goes on.                  *)
THEOREM RevokedSessionsAreDead == Spec => []RevokedSessionIsDead
<1> DEFINE Cleaned == Sessioned /\ \A r \in Request : Cleaning(r)
<1>1. Init => Cleaned
  <2>1. Init => \A r \in Request : Cleaning(r)
    BY DEF Init, Cleaning, Revokes
  <2> QED
    BY <2>1, InitSessioned
<1>2. Cleaned /\ [Next]_vars => Cleaned'
  BY StepSessioned, StepCleans
<1>3. Cleaned => RevokedSessionIsDead
  BY CleanIsDead
<1> HIDE DEF Cleaned
<1> QED
  BY <1>1, <1>2, <1>3, PTL DEF Spec

-----------------------------------------------------------------------------
(* The authorization outlives the refresh token: whoever has stored one,   *)
(* and answers with it, has extended the authorization to its date, and    *)
(* nobody else sets another one while the token is there.                  *)
Settled == {"mint", "ok", "error", "crashed"}

StoredBy(t, r) == Used(t) /\ tokens[t].by = r /\ tokens[t].type = "refresh"

Dated(r) ==
  \A t \in Token : StoredBy(t, r) =>
    /\ tokens[t].expires_at = work[r].at + RefreshLife
    /\ tokens[t].authorization = work[r].authorization
    /\ pc[r] \in Settled

HasRefreshToken(r) ==
  "refresh" \in pending[r] \/ \E t \in Token : StoredBy(t, r) /\ Live(t)

Extended(r) ==
  \A a \in Authorization :
    /\ a = work[r].authorization /\ PlainCodeFlow(a) /\ LiveAuthorization(a)
    /\ pc[r] \in {"mint", "ok"} /\ "extend" \notin pending[r] /\ HasRefreshToken(r)
    => authz[a].expires_at >= work[r].at + RefreshLife

Covered(r) == Dated(r) /\ Extended(r)

LEMMA SettledStays ==
  ASSUME Descended, [Next]_vars, NEW r \in Request, pc[r] \in Settled
  PROVE  /\ pc'[r] \in Settled /\ work'[r] = work[r]
         /\ pc'[r] \in {"mint", "ok"} => pc[r] \in {"mint", "ok"}
         /\ pending'[r] \subseteq pending[r]
         /\ \A write \in pending[r] \ pending'[r] :
              \/ pc'[r] \notin {"mint", "ok"}
              \/ write = "extend" /\ ExtendAuthorization(r)
              \/ write \in {"access", "refresh"} /\ \E t \in Token :
                   MintAccessToken(r, t) \/ MintRefreshToken(r, t)
              \/ write \in {"token", "victim"}
<1>1. Promises /\ TypeOK /\ Lineage
  BY DEF Descended, Promises, Sessions, Shape
<1>2. CASE pc'[r] = pc[r] /\ work'[r] = work[r] /\ pending'[r] = pending[r]
  BY <1>2
<1>3. ~Receive(r)
  BY DEF Receive, Settled
<1>4. CASE Disturb(r)
  BY <1>1, <1>4 DEF Disturb, Fail, Crash, FailWrite, Applied, Goto, TypeOK, Settled
<1>5. CASE Respond(r)
  BY <1>1, <1>5 DEF Respond, Goto, TypeOK, Settled
<1>6. CASE ExtendAuthorization(r) \/ DeleteToken(r) \/ DeleteAccessToken(r)
  BY <1>1, <1>6 DEF ExtendAuthorization, DeleteToken, DeleteAccessToken, Delete, Applied, TypeOK
<1>7. ASSUME NEW t \in Token, MintAccessToken(r, t) \/ MintRefreshToken(r, t)
      PROVE  /\ pc' = pc /\ work' = work /\ pending'[r] \subseteq pending[r]
             /\ pending[r] \ pending'[r] \subseteq {"access", "refresh"}
  BY <1>1, <1>7 DEF MintAccessToken, MintRefreshToken, Mint, Applied, TypeOK
<1>8. ~NarrowScope(r) /\ ~DiscardCode(r) /\ ~Starts(r) /\ ~ConsumeNothing(r) /\ ~ConsumeOrphan(r)
        /\ ~FindAccessToken(r) /\ ~DescribeToken(r) /\ ~ServeClaims(r)
  BY DEF Settled, NarrowScope, DiscardCode, Starts, ConsumeCode, ConsumeRefreshToken, Consumable,
         DropAccessToken, ConsumeNothing, ConsumeOrphan, FindAccessToken, DescribeToken, ServeClaims
<1> QED
  BY <1>1, <1>2, <1>3, <1>4, <1>5, <1>6, <1>7, <1>8, AloneOrNone, OneRequest
     DEF OthersSame, Proceed, Starts

LEMMA StepDated ==
  ASSUME Sessioned, [Next]_vars, NEW r \in Request, Dated(r)
  PROVE  Dated(r)'
<1>1. Descended /\ Promises /\ Lineage /\ Persist
  BY StepPersists DEF Sessioned, Descended
<1> SUFFICES ASSUME NEW t \in Token, StoredBy(t, r)'
             PROVE  /\ tokens'[t].expires_at = work'[r].at + RefreshLife
                    /\ tokens'[t].authorization = work'[r].authorization
                    /\ pc'[r] \in Settled
  BY DEF Dated
<1>2. CASE Used(t)
  <2>1. SameDocument(t)
    BY <1>1, <1>2 DEF Persist
  <2>2. StoredBy(t, r)
    BY <1>2, <2>1 DEF StoredBy, SameDocument
  <2> QED
    BY <1>1, <2>1, <2>2, SettledStays DEF Dated, SameDocument
<1>3. CASE ~Used(t)
  <2>1. Creates(t)
    BY <1>1, <1>3, CreatesNone, CreatesOne DEF NoneCreated, Used, StoredBy
  <2>2. ASSUME NEW a \in Authorization, IssueCode(a, t) \/ IssueFrontChannelToken(a, t)
        PROVE  FALSE
    BY <1>1, <2>2, DescentStarts, NoneAssumption DEF First, StoredBy
  <2>3. PICK q \in Request : MintAccessToken(q, t) \/ MintRefreshToken(q, t)
    BY <2>1, <2>2 DEF Creates
  <2>4. PICK type \in {"access", "refresh"}, life \in Nat :
          Mint(q, t, type, life) /\ (type = "refresh" => life = RefreshLife)
    BY <2>3, LifetimeAssumption DEF MintAccessToken, MintRefreshToken
  <2>5. /\ tokens'[t].type = type /\ tokens'[t].by = q
        /\ tokens'[t].authorization = work[q].authorization
        /\ tokens'[t].expires_at = work[q].at + life
        /\ Owes(q) /\ work' = work /\ pc' = pc
    BY <1>1, <2>4, MintEffect
  <2>6. q = r /\ type = "refresh"
    BY <2>5 DEF StoredBy
  <2>7. pc[r] \in Settled
    BY <1>1, <2>5, <2>6 DEF Lineage, Origin, Settled
  <2> QED
    BY <2>4, <2>5, <2>6, <2>7
<1> QED
  BY <1>2, <1>3

LEMMA HasRefreshBefore ==
  ASSUME Descended, [Next]_vars, NEW r \in Request, ~Starts(r), HasRefreshToken(r)'
  PROVE  HasRefreshToken(r)
<1>1. Promises /\ Lineage /\ Persist
  BY StepPersists DEF Descended
<1>2. CASE "refresh" \in pending'[r]
  BY <1>2, QuietRequest DEF HasRefreshToken, GrantWrites
<1>3. ASSUME NEW t \in Token, StoredBy(t, r)', Live(t)'
      PROVE  HasRefreshToken(r)
  <2>1. CASE Used(t)
    <3>1. Live(t)
      BY <1>1, <1>3, <2>1, CreatesNone, CreatesOne DEF NoneCreated, Live
    <3> QED
      BY <1>1, <1>3, <2>1, <3>1 DEF HasRefreshToken, StoredBy, Persist, SameDocument
  <2>2. CASE ~Used(t)
    <3>1. Creates(t)
      BY <1>1, <1>3, <2>2, CreatesNone, CreatesOne DEF NoneCreated, Used, StoredBy
    <3>2. ASSUME NEW a \in Authorization, IssueCode(a, t) \/ IssueFrontChannelToken(a, t)
          PROVE  FALSE
      BY <1>1, <1>3, <3>2, DescentStarts, NoneAssumption DEF First, StoredBy
    <3>3. PICK q \in Request : MintAccessToken(q, t) \/ MintRefreshToken(q, t)
      BY <3>1, <3>2 DEF Creates
    <3>4. PICK type \in {"access", "refresh"}, life \in Nat : Mint(q, t, type, life)
      BY <3>3, LifetimeAssumption DEF MintAccessToken, MintRefreshToken
    <3>5. q = r /\ type = "refresh" /\ type \in pending[q]
      BY <1>1, <1>3, <3>4, MintEffect DEF StoredBy
    <3> QED
      BY <3>5 DEF HasRefreshToken
  <2> QED
    BY <2>1, <2>2
<1> QED
  BY <1>2, <1>3 DEF HasRefreshToken

(* What a step does to an authorization that exists.                       *)
LEMMA AuthorizationStep ==
  ASSUME TypeOK, Descended, [Next]_vars, NEW a \in Authorization, authz[a].state # "unused"
  PROVE  /\ LiveAuthorization(a)' =>
              /\ LiveAuthorization(a)
              /\ \/ authz'[a].expires_at = authz[a].expires_at
                 \/ \E q \in Request : ExtendAuthorization(q) /\ work[q].authorization = a
         /\ LiveAuthorization(a) /\ ~LiveAuthorization(a)' => ReapAuthorization(a)
<1>1. CASE authz' = authz
  BY <1>1 DEF LiveAuthorization
<1>2. ASSUME NEW b \in Authorization,
             ReapAuthorization(b) \/ Consent(b) \/ \E scope \in SUBSET Scope : CreateAuthorization(b, scope)
      PROVE  /\ LiveAuthorization(a)' =>
                  LiveAuthorization(a) /\ authz'[a].expires_at = authz[a].expires_at
             /\ LiveAuthorization(a) /\ ~LiveAuthorization(a)' => ReapAuthorization(a)
  BY <1>2 DEF ReapAuthorization, Consent, CreateAuthorization, LiveAuthorization, TypeOK,
       AuthorizationDoc
<1>3. ASSUME NEW r \in Request, NarrowScope(r)
      PROVE  authz'[a].state = authz[a].state /\ authz'[a].expires_at = authz[a].expires_at
  BY <1>3 DEF NarrowScope, TypeOK, AuthorizationDoc
<1>4. ASSUME NEW r \in Request, ExtendAuthorization(r)
      PROVE  /\ authz'[a].state = authz[a].state
             /\ authz'[a].expires_at = authz[a].expires_at \/ work[r].authorization = a
  BY <1>4 DEF ExtendAuthorization, TypeOK, AuthorizationDoc
<1>5. \A r \in Request : Receive(r) => authz' = authz
  BY ReceiveAnswers DEF Descended, Promises, Sessions, Reject, Accept
<1>6. \A r \in Request :
        Disturb(r) \/ (Proceed(r) /\ ~NarrowScope(r) /\ ~ExtendAuthorization(r)) => authz' = authz
  BY DEF Disturb, Fail, Crash, FailWrite, Proceed, DiscardCode, ConsumeCode, ConsumeRefreshToken,
         ConsumeNothing, ConsumeOrphan, DropAccessToken, MintAccessToken, MintRefreshToken, Mint,
         FindAccessToken, DeleteToken, DeleteAccessToken, Delete, DescribeToken, ServeClaims, Respond
<1>7. Tick \/ (\E t \in Token : ReapToken(t))
        \/ (\E b \in Authorization : \E t \in Token : IssueCode(b, t) \/ IssueFrontChannelToken(b, t))
        => authz' = authz
  BY DEF Tick, ReapToken, IssueCode, IssueFrontChannelToken
<1>8. \/ authz' = authz
      \/ \E b \in Authorization : ReapAuthorization(b) \/ Consent(b)
                 \/ \E scope \in SUBSET Scope : CreateAuthorization(b, scope)
      \/ \E r \in Request : NarrowScope(r) \/ ExtendAuthorization(r)
  BY <1>5, <1>6, <1>7 DEF Next, Reap, Issue, vars
<1> QED
  BY <1>1, <1>2, <1>3, <1>4, <1>8 DEF LiveAuthorization

LEMMA StepExtended ==
  ASSUME Sessioned, [Next]_vars, NEW r \in Request, Covered(r)
  PROVE  Extended(r)'
<1> SUFFICES ASSUME NEW a \in Authorization, a = work'[r].authorization,
                    PlainCodeFlow(a)', LiveAuthorization(a)',
                    pc'[r] \in {"mint", "ok"}, "extend" \notin pending'[r], HasRefreshToken(r)'
             PROVE  authz'[a].expires_at >= work'[r].at + RefreshLife
  BY DEF Extended
<1>1. /\ Descended /\ Promises /\ Lineage /\ Persist /\ TypeOK /\ Shape /\ Origin(r)
      /\ Sound(a)
  BY StepPersists DEF Sessioned, Descended, Promises, Sessions, Shape, Lineage
<1>2. ~Starts(r)
  BY <1>1, TakeEffect DEF Starts, ConsumeCode, DropAccessToken, TypeOK
<1>3. HasRefreshToken(r)
  BY <1>1, <1>2, HasRefreshBefore
<1>4. pc[r] \in Settled
  BY <1>1, <1>3 DEF HasRefreshToken, Origin, Owes, GrantWrites, Covered, Dated, Settled
<1>5. /\ work'[r] = work[r] /\ pc[r] \in {"mint", "ok"} /\ a = work[r].authorization
      /\ "extend" \in pending[r] => ExtendAuthorization(r)
  BY <1>1, <1>4, SettledStays
<1>6. \/ Owing(r, a)
      \/ \E t \in Token : Grants(t, a) /\ tokens[t].by = r
  BY <1>3, <1>5 DEF HasRefreshToken, Owing, Owes, GrantWrites, Grants, StoredBy, Covered, Dated
<1>7. /\ \E c \in Token : First(c, a)
      /\ authz[a].state # "unused"
  <2>1. PICK c \in Token : First(c, a)
    <3>1. CASE Owing(r, a)
      BY <1>1, <3>1 DEF Owing, Serves, Origin, TypeOK, Work
    <3>2. ASSUME NEW t \in Token, Grants(t, a) PROVE \E c \in Token : First(c, a)
      BY <1>1, <3>2 DEF Grants, Live, Used, Lineage, Descent, TypeOK, TokenDoc
    <3> QED
      BY <1>6, <3>1, <3>2
  <2> QED
    BY <1>1, <2>1 DEF First, Lineage, Descent
<1>8. PlainCodeFlow(a) /\ Sole(a)
  BY <1>1, <1>7, PlainStays DEF Sound
<1>9. ASSUME NEW q \in Request, ExtendAuthorization(q), work[q].authorization = a
      PROVE  q = r
  <2>1. Owing(q, a)
    BY <1>9 DEF ExtendAuthorization, Applied, Owing, Owes, GrantWrites
  <2> QED
    BY <1>6, <1>8, <2>1 DEF Sole
<1>10. CASE ExtendAuthorization(r)
  <2>1. LiveAuthorization(a)
    BY <1>1, <1>7, AuthorizationStep
  <2>2. authz'[a].expires_at = work[r].at + RefreshLife
    BY <1>1, <1>5, <1>10, <2>1 DEF ExtendAuthorization, TypeOK, AuthorizationDoc
  <2>3. work[r].at + RefreshLife \in Nat
    BY <1>1, LifetimeAssumption DEF TypeOK, Work
  <2> QED
    BY <1>5, <2>2, <2>3
<1>11. CASE ~ExtendAuthorization(r)
  <2>1. LiveAuthorization(a) /\ authz'[a].expires_at = authz[a].expires_at
    BY <1>1, <1>7, <1>9, <1>11, AuthorizationStep
  <2>2. authz[a].expires_at >= work[r].at + RefreshLife
    BY <1>3, <1>5, <1>8, <1>11, <2>1 DEF Covered, Extended
  <2> QED
    BY <1>5, <2>1, <2>2
<1> QED
  BY <1>10, <1>11

Covering == Sessioned /\ \A r \in Request : Covered(r)

LEMMA InitCovering == Init => Covering
<1>1. ASSUME Init, NEW r \in Request PROVE Covered(r)
  BY <1>1 DEF Init, Covered, Dated, Extended, StoredBy, Used
<1> QED
  BY <1>1, InitSessioned DEF Covering

LEMMA StepCovering == Covering /\ [Next]_vars => Covering'
BY StepSessioned, StepDated, StepExtended DEF Covering, Covered

(* When MongoDB removes an authorization of a plain code flow, no refresh  *)
(* token of it that a client holds is still valid: every answer with a new *)
(* one comes after the authorization was extended (Promise.all in          *)
(* token/index.ts).                                                        *)
THEOREM AuthorizationsOutliveSessions == Spec => AuthorizationOutlivesSession
<1>1. Covering /\ [Next]_vars =>
        [\A a \in Authorization :
           LiveAuthorization(a) /\ ~LiveAuthorization(a)' /\ PlainCodeFlow(a) =>
             \A t \in Token :
               Live(t) /\ Known(t) /\ tokens[t].type = "refresh" /\ AuthorizationOf(t) = a
                 => tokens[t].expires_at <= now]_vars
  <2> SUFFICES ASSUME Covering, [Next]_vars, NEW a \in Authorization, LiveAuthorization(a),
                      ~LiveAuthorization(a)', PlainCodeFlow(a), NEW t \in Token, Live(t), Known(t),
                      tokens[t].type = "refresh", tokens[t].authorization = a
               PROVE  tokens[t].expires_at <= now
    BY DEF AuthorizationOf
  <2>1. Descended /\ Lineage /\ TypeOK
    BY DEF Covering, Sessioned, Descended, Promises, Sessions, Shape
  <2>2. authz[a].expires_at <= now
    BY <2>1, AuthorizationStep DEF LiveAuthorization, ReapAuthorization
  <2>3. PICK r \in Request : StoredBy(t, r) /\ pc[r] = "ok" /\ pending[r] = {}
    BY <2>1 DEF Lineage, Descent, Origin, Live, Used, Known, StoredBy, TypeOK, TokenDoc
  <2>4. /\ tokens[t].expires_at = work[r].at + RefreshLife
        /\ authz[a].expires_at >= work[r].at + RefreshLife
    BY <2>3 DEF Covering, Covered, Dated, Extended, HasRefreshToken
  <2>5. /\ tokens[t].expires_at \in Nat /\ authz[a].expires_at \in Nat /\ now \in Nat
    BY <2>1 DEF TypeOK, TokenDoc, AuthorizationDoc
  <2> QED
    BY <2>2, <2>4, <2>5
<1> QED
  BY <1>1, InitCovering, StepCovering, PTL DEF Spec, AuthorizationOutlivesSession

=============================================================================
