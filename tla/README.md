# A verification project for oidc-provider

TLA+ models of the OpenID Connect provider in `src/`, checked with TLC, and
theorems about them proved with TLAPS.  Every definition is translated from the
TypeScript source; `PROJECT.json` maps each one to the lines it stands for.

## 1. The system

The provider is a set of handlers `(req, res) => Promise<void>` around a MongoDB
database.  A process keeps no session in memory: what a request knows of earlier
ones comes from documents and from the cookies of the browser.  What a process
does keep, and all its requests share, is one database connection, one keystore
and one cache of cookie secrets.

| Part | State it keeps | Operations | Correct when | Modelled in |
|---|---|---|---|---|
| Token endpoint (`middleware/lib/token/index.ts`, `validator.ts`) | tokens, authorizations | redeem a code or refresh token: validate, narrow the scope, delete the grant, or both grants of the body, drop the old access token, create a new pair, extend the authorization, sign an id_token | a grant is redeemed once; an answer is complete; the scope stays within the grant; nobody else's grant is touched, unless it is named beside the request's own | `Tokens`, `GrantChain` |
| Revocation (`revocation.ts`) | tokens | find the access token of a refresh token, delete both | after success the token is refused and nothing of the session is usable | `Tokens` |
| Introspection (`introspection.ts`) | none | describe a token | a revoked token is not active | `Tokens` |
| Userinfo, bearer tokens (`lib/userinfo`, `lib/bearer`) | none | answer with claims | only for tokens that are there | `Tokens`, `Server` |
| Documents (`schemata/token.ts`, `authorization.ts`) | the collections, TTL indexes | create, update, delete, expire | an authorization outlives its tokens; its consent is that of its user (which `flow_consent` refutes) | `Tokens`, `AuthorizationFlow` |
| Authorization endpoint (`middleware/lib/authorization`, `strategies`) | authorization documents, cookies | load or create a session, bind the user, check nonce, prompts and consent, issue what the response type asks for, redirect to login or consent | the answer is what the flow asked for; consent is real; prompt=none shows no page; flows end | `AuthorizationFlow`, `AuthorizationPromise` |
| Login (`lib/login`), consent (`lib/consent`) | cookies, `user.consents` | set `user` or `sub`; add the client to the consents | see above | `AuthorizationFlow`, `Accounts` |
| Keys (`utils/lib/keys`, `utils/lib/util/keystore.ts`) | document `master`, module variables | load, create, cache, save, use | processes agree; no key pair is missing; what was signed can be verified | `Keys` |
| JWT (`jwt/lib`), JWKS endpoint | none | sign; publish | published keys verify tokens | `Keys`, `Server` |
| Database connection (`database/lib/connect.ts`) | one connection per process | connect, disconnect | it is returned, and a request does not lose it to one that is not running | `Server` |
| Response life cycle (`endpoints/*`, `lib/methods`, `lib/error-handler`) | the response | check the method, answer, report an error, end | every response is ended | `Server` |
| Clients and users (`schemata/client.ts`, `user.ts`) | documents with secrets | create, load, save, hash, reset, update | a password is hashed once, a secret is not replaced by another one, consents are kept | `Accounts` |

How the parts interact: the authorization endpoint creates the authorization that
codes and tokens refer to by id; the token endpoint follows that reference
(`populate`), which may dangle, since documents are removed independently by
requests and by MongoDB's TTL monitor.  Authorization, login and consent hand a
flow to each other through three cookies shared by all tabs of a browser.  Every
handler that reads a cookie or signs a token calls `getKeys()`, and every section
of code that queries opens and closes the connection of the process.

What is hard here: requests interleave at every `await`; nothing is locked and no
transaction is used, so validation and consumption of a grant are apart; a
`Promise.all` leaves some of its writes behind when one fails; function instances
end between two awaits; the TTL monitor removes documents at its own pace; a
request is served with cookies that are out of date when its response arrives;
several calls fill one cache; requests close a connection that others are using;
the hooks of mongoose write too, so an update happens twice; and what one place
validates is not always all that the next one acts upon: a second grant in a body,
a parameter that is written to a document, an empty or padded value.

`PROJECT.json` lists the hazards by line with the properties that cover each one.

## 2. Modules

| Module | Models | State |
|---|---|---|
| `Tokens` | the token, revocation, introspection and userinfo endpoints over the token store, with the TTL monitor | documents (`tokens`, `authz`), and per request its place in the code (`pc`), its parameters (`payload`), its variables (`work`) and the writes of a `Promise.all` still outstanding (`pending`) |
| `GrantChain` | what the token endpoint promises: a chain of grants of which there is one at a time, taken by a request that returns the next before it is served | the chains started, their grants, who holds one, who has returned one and was served |
| `AuthorizationFlow` | a browser with tabs, the authorization endpoint with its three strategies, login, consent | cookies (`jar`), documents (`doc`), `consents`, and per tab its page or place in the code (`pc`), its parameters, the cookies it was sent with (`sent`) and the document as it was fetched (`view`) |
| `AuthorizationPromise` | what the flow promises, without cookies, pages and prompts: a client is answered only for a flow one of whose users has consented to that client | the client and the users of each flow, the consents, the answers |
| `Keys` | getKeys, keystore, cache, saving, restarts, and what requests do with keys | document `master`, per process `cached` and `keystore`, per call its place and variables |
| `Server` | the requests of one process around its connection, and how each response ends | `conn` (mongoose's readyState), per request the stages of its handler it has entered (`stage`), the calls before it in that stage (`todo`), the finally blocks around it (`cleanup`), what it waits for and why its handler threw |
| `Accounts` | the hooks of user and client documents | the documents (`db`), per caller its document in memory and its update |
| `MCTokens`, `MCAuthorizationFlow`, `MCKeys`, `MCServer`, `MCAccounts` | instances for TLC | |
| `TokensProofs`, `TokensPromisesProofs`, `TokensSessionProofs`, `GrantChainProofs`, `AuthorizationFlowProofs`, `KeysProofs`, `ServerProofs`, `AccountsProofs` | theorems, section 4 | |

`Tokens` composes the endpoints that share the token store: requests of all five
kinds run in one state space, and what the authorization endpoint writes appears
as `Issue`.  It implements `GrantChain` (`ChainPromise`): the chains are named
after codes, the grant of a chain is its one live code or refresh token, and a
request holds it from `findByIdAndDelete` until the next refresh token is stored.

`AuthorizationFlow` implements `AuthorizationPromise` (`FlowPromise`): a flow is the
document of a tab, and a tab that shows an answer is answered for the document the
answer was issued for.  Whether the document has consent plays no part in it, since
a request parameter can write that.  For this, documents remember in `users`
everyone they were bound to, which the code does not store: the field `user` keeps
only the last one.

A step is the code between two awaits.  The correspondence of actions and code:

* `Tokens`.  `Receive*` is validation up to its answer: the reads of a validation
  are one `populate`d query, and its checks touch nothing else.  `NarrowScope` is
  the update in `validateRefreshToken`.  `ConsumeCode`, `ConsumeRefreshToken`,
  `ConsumeNothing` and `ConsumeOrphan` are `findByIdAndDelete` and the line after
  it, which throws if the document or its authorization is null.  A body may have a
  code and a refresh token, of which validation looks at the one that `grant_type`
  names: `beside` is the other one, `DiscardCode` the first if-block when the second
  one follows, and what is minted belongs to the refresh token (`Redeemed`).
  `DropAccessToken` is `findOneAndDelete`; it chooses any access token, as MongoDB
  may.  `Mint*` and `ExtendAuthorization` are the members of the `Promise.all`;
  their expiry is computed when it starts.  `FindAccessToken`, `DeleteToken` and
  `DeleteAccessToken` are the revocation, `ReceiveBearer` and `ServeClaims` the
  two queries of `getClaims`.  `Fail`, `FailWrite` and `Crash` are a rejected
  call, a rejected member of a `Promise.all` (the others go on) and the end of the
  process.
* `AuthorizationFlow`. `Load`, `Create`, `Find`, `UpdateInHook` and `Update` are
  `buildAuthorizationSchema` and `init()`; an update is written by the pre-hook
  and again by `findByIdAndUpdate`, with a step of somebody else possible in
  between. Requests may bring a parameter `consent`, which `create` validates
  (`ConsentIsGiven`, `CreateNothing`) and an update does not (`Updated`).
  `Validate`, `IssueNext` and `IssueLast` are `responsePayload()`; `ReportError`,
  `ToLogin` and `ToConsent` are the two catch blocks of the handler;
  `SubmitLogin`, `FailLogin`, `SubmitConsent`, `RecordConsent` and `DenyConsent`
  are the forms.
* `Keys`.  `Begin`, `Fetch`, `EnsureKeys`, `GenerateKey`, `Cache` and `Save` are
  the two ways through `getKeys()`; `StartImport` and `ImportKey` are
  `KeyStore.import`; `SignCookies`, `SignIdToken` and `PublishKeys` are what its
  callers do.
* `Server`.  A handler is the sequence of its calls that concern the connection,
  as the code makes them: `connect`, `query`, a `check` that may throw, `close`,
  and the try blocks whose finally disconnects.  `Handler` gives the stages of each
  endpoint, and for each stage all sequences it may consist of (keys cached, loaded
  or created; a session created or found, updated or not; one, two or three things
  issued; claims fetched or not); `Enter` begins the next stage.  `Throw`
  leaves for the finally blocks around the call, innermost first.  `Opened`,
  `Refused` and `Closed` are mongoose's events; that a `close()` of a connection
  that is opening waits for it, and closes it as soon as it is open, is the
  behaviour of the driver the code relies on and is marked external.
* `Accounts`.  `Validate` and `HashBeforeSave` are the hooks of `save()` and
  `create()`, `UpdateHook`, `WriteInHook` and `Write` those of
  `findByIdAndUpdate()`: awaiting `this.update()` in the hook carries out the
  update it is a hook of.  A value is a plain one and the number of times it was
  hashed, so that a password stored in plain, or hashed twice, shows.  `Create`
  trims a password, as its setter does before the hook hashes it; an update gives
  the hook the value as it is.  The empty string is a value of its own (`Empty`),
  which the hooks take for none (`Missing`).

Definitions marked `Fault` are mistakes: with one of them in place of the
definition below it the property named in `PROJECT.json` fails in its run.

## 3. Runs

| Run | Instance | Shows | Size |
|---|---|---|---|
| `token_races` | 1 authorization with 1 code, 4 requests to the token and revocation endpoints, with one grant or two, no time | `NoForkedSession`, `RevokedSessionIsDead`, `OneAccessToken`, `AnswersAreComplete`, `ChainPromise` (the refinement) | 477 000 states |
| `token_session` | 3 requests, 2 scopes, 1 code, clock to 2, lifetimes 1 | `TypeOK`, `ScopeWithinGrant`, `AuthorizationOutlivesSession` | 2 130 000 states |
| `token_owners` | 2 clients with a session each, 2 requests of all five kinds, fair | `OnlyOwnerOrBearerRemoves`, `RevokedTokenIsRefused`, `EveryRequestAnswered` | 238 000 states |
| `flow_tabs` | 2 tabs, 2 users, 2 clients, code flow, no prompt or a single one, with or without consent=true | `TypeOK`, `SilentStaysSilent`, `RequestedFormIsShown`, `FlowPromise` (the refinement) | 2 980 000 states |
| `flow_types` | 2 tabs, 1 user, 1 client, five response types with and without nonce, expiring cookies | `SpentSessionIsForgotten`, `IdTokenHasNonce`, `AnswerAsRequested` | 5 140 000 states |
| `flow_ends` | 2 tabs, 1 user, 2 clients, consent=false or absent, fair | `FlowEnds` | 565 000 states |
| `keys_cold_start` | 1 process that restarts, 3 calls, 2 algorithms, fair | `TypeOK`, `LateProcessesAgree`, `WarmKeystoreIsComplete`, `EveryCallAnswered` | under 1 min |
| `server_shared` | 2 requests to any of 8 endpoints, 2 failures, fair | `TypeOK`, `SequentialRequestsKeepConnection`, `ConnectionIsReturned`, `OnlyRefusalStrands`, `EveryResponseEnds` | 374 000 states |
| `accounts` | 2 callers, 1 user, 2 clients, 3 passwords (one, the same with white space around it, white space alone), 3 secrets, the empty string | `TypeOK`, `PasswordIsHashedOnce`, `ClientSecretStays`, `ConsentsAreKept` | 1 290 000 states |

Three runs find what a test, a message or the README of the repository says
violated:

| Run | Says | Does |
|---|---|---|
| `revoke_leaves_access_token` | "revokes refresh token and access token at once" | one access token goes, a session of the hybrid flow has two |
| `keys_published` | "public key for verifying the signature of the ID token" | key pairs are never stored, a restart publishes others |
| `flow_consent` | "Custom consent without user is not allowed!" | an update is not validated: consent=true of a second request is written to a document without a user |

### Bounds

* Requests, calls and tabs are made once each; an interleaving needs as many of
  them as it has actors.  Four requests are a redemption, two racing refreshes and
  a revocation; a request that starts after another has ended counts as a fresh
  one.
* `MaxIssued` bounds codes and front-channel tokens, `MaxTime` the clock.  A run
  without time (`MaxTime = 0`) leaves the TTL monitor out, `token_session` brings it
  in; with lifetimes of 1 and a clock to 2 a session can be extended once and
  still run out, and every document can expire between any two steps.
* Processes share one document and nothing else, and a process that restarts
  meets that document as another process would; so `keys_cold_start` spends its
  states on three calls inside one process.
* In `flow_ends` prompts are none or both forms; `flow_tabs` has single ones,
  `flow_types` contradictory ones too.  consent=true is left to `flow_tabs` and
  `flow_consent`: it makes `create` fail or is not looked at again, so it puts
  nothing between a user and the end of the flow.
* `MaxFailures = 2` in `Server`: one failure that leaves something behind and one
  that meets it.  A query that has no connection fails without being counted.
  Two requests do not show one that runs alone after two that overlapped; what
  those leave behind is seen with three, and covered by the theorems of
  `ServerProofs`.
* `MaxHashes = 2` in `Accounts` lets a password be hashed once too often, which is
  all the property has to see.  One user is enough, as no step concerns two; two
  clients give a user two consents to lose.
* `Token` has an id for every token the requests can create (`MCEnoughTokens`),
  so no request ever waits for one.  `Fresh` takes one unused id rather than any:
  ids are opaque.
* Symmetry is used for requests, tabs, users and clients in runs of invariants
  and action properties only.
* Deadlock is not checked where requests are made once each: when all are
  answered the system stops.  In `accounts` callers go on for ever, and it is.

The theorems of section 4 have none of these bounds.

### Fairness

`FairSpec` adds weak fairness for the code of each request, tab or call: promises
settle and the event loop goes on.  In `Server` a connection that is opening or
closing gets there, and a query comes back or times out, as the driver does.
Requests, the clock, the TTL monitor, crashes and failures are never forced.
`flow_ends` also assumes that a user who sees a form fills it in; it has no
expiring cookies, because a browser that loses them again and again may go through
the login for ever, and one user, because consent is stored for the user of the
cookies and validated for the one of the document.

### What the models assume

* `authentic` stands for the comparison of client_secret, code_verifier and
  redirect_uri.
* Ids and secrets are drawn at random and are distinct; e-mail addresses are
  unique.
* Documents outlive the cookies that name them (30 days against 15 minutes), so
  `AuthorizationFlow` has no missing document; `Tokens` has.
* `OneAccessToken`, `RevokedSessionIsDead` and `AuthorizationOutlivesSession` are
  stated for the plain code flow (one code, no front-channel token): with more
  than one chain per authorization they do not hold, as
  `revoke_leaves_access_token` shows for revocation.
* In `Keys` every await is a point where calls interleave, also where Node would
  go on without leaving its queue of microtasks.  Generating and parsing keys do
  not fail.
* `Server` has one process: others have connections of their own.

### What the code does not promise

Some races are in the models, and no property speaks against them:

* Two requests with different users may bind a document one after the other
  (`init()` reads the user before it writes it): the document keeps the second user
  while the consent that was validated may be the first one's.  So
  `FlowPromise` promises the consent of a user the document was bound to, for any
  number of users, and not of the one it shows at the end.
* The field `consent` of an authorization says little: a request parameter writes it
  without a user (`flow_consent`), and a document keeps it when another user is
  bound.  `FlowPromise` does not rest on it, because `validate()` looks the consent
  of the user up each time.
* A client with a valid grant that adds another client's code or refresh token to
  the body deletes that one too, with the access token that goes with a refresh
  token, and is given tokens for the authorization of the refresh token:
  `OnlyOwnerOrBearerRemoves` and `AnswersAreComplete` say just that.
* A refresh that redeems a refresh token while it is being revoked may win: the
  revocation is answered with success and the new tokens stay.
  `RevokedSessionIsDead` speaks of revocations that have deleted the token
  themselves.  After a revocation that deleted the refresh token and failed to
  delete the access token, the retry is answered with success and the access token
  stays.
* A request with a wrong method to the token, revocation or introspection endpoint
  throws before the try block, and its response is not ended: in `Server` it is
  `unhandled`, and `EveryResponseEnds` is about handlers that run.
* An authorization cookie left over by an abandoned flow wins over the parameters
  of the next request, which then continues the old session; `AnswerAsRequested`
  speaks of a tab that is answered for its own.
* A token that has expired counts until the TTL monitor has removed it: no handler
  compares `expires_at` with the clock.
* Calls of `getKeys()` that start together on a cold process replace keys that
  were already returned to others; the property that survives is that none is
  missing.
* Requests that overlap may close the connection under each other's queries, which
  then fail; `EveryResponseEnds` says that they are answered even so.
  A request that waits to close a connection that is then refused may wait until a
  later request opens one (`Stranded`); `OnlyRefusalStrands` says that this takes a
  second request running beside it.
* `getClaims()` does not await its `disconnect()`.  Where its first section has
  closed the connection this does nothing; but if that section failed, or other
  requests have opened the connection again in the meantime, it leaves a close
  behind that a later request runs into, even one that runs alone.
  `SequentialRequestsKeepConnection` excepts requests after such a one
  (`LeavesClose`).
* The empty string passes the hooks of an update and is stored as it is: it erases a
  client's secret, and is the only password that is not hashed.  Every other secret
  stays, every other password is hashed.
* A password is trimmed when a user is created, and taken as it is by an update and
  by the login: a user created with white space around the password is refused with
  it.  No property is about this, as `Accounts` has no logins.
* `WarmKeystoreIsComplete` needs key generation to succeed, which `Keys` assumes.
  If generating one key pair fails and another one is already in the keystore,
  later calls find it initialised and go on without the one that is missing.
* `resetSecret()` changes a document that cannot be saved: the hook before
  validation refuses documents that have an id already.
* An update that fails at its second write has taken effect with the first, and of
  two updates of one password at the same time the first may come back.

## 4. Proofs

All theorems hold for every value of the constants, from the assumptions named in
the modules (types of the constants, `None` is no id, ids and names are apart).
They are invariance proofs: an inductive invariant is true at the start, kept by
every step, and implies the property; each lemma about steps has one case per
action.  The invariants were found with TLC's help first.

**`TokensProofs`** has `TypeCorrect` and `SessionsNeverFork`.  `TypeOK` alone is
not inductive: steps use the variables of a request as ids.  `Shape` adds
`Bookkeeping`: a token in use has an authorization, and a request that is running,
or still has writes outstanding, holds the payload and ids those steps need.
A chain of grants is named after the code it started with.  At any time it is
continued by one live grant, or by one request that has consumed a grant and owes
its successor.  `NoForkedSession` says so, but a step preserves it only if a fresh
code cannot be the name of an old chain; `Rooted` adds that the root of every
token in use, and of every request that holds a grant, is in use itself, and that
requests present only tokens that exist.  Consuming moves the chain from the grant
to the request, minting the refresh token moves it back, and every other step
leaves it alone or ends it.  `Sessions` is the conjunction.

**`GrantChainProofs`** has `TokensImplementChain`: `Spec => Chain!Spec`.  `Ledger`
says of every request what the mapping needs besides `Sessions`: which kind of
request can be where, that it holds nothing before it has consumed something, and
that it is answered only after it has minted.  The lemmas say of each action which
step of `GrantChain` is seen (`Seen`): `IssueCode` starts a chain, consuming takes
it, minting a refresh token returns it, `Respond` serves, removing a grant ends its
chain, a failure or crash of its holder loses it, and all else is not seen.

**`TokensPromisesProofs`** has `ScopesStayGranted`, `AnswersComplete`,
`RevokedTokensAreRefused` and `OwnersOrBearersRemove`.  `Promise` is what each
request carries from its validation to its last write: whoever works with a grant or
token owns the one it was validated for (`Entitled`), and with it the second token
it revokes; what it is about to write is within the scope granted (`Narrowing`),
because the scope it was compared with can only have shrunk from what was granted;
what is not stored is still pending (`Storing`); the token of a revocation is gone or
about to be removed (`Removing`); and the grants a request names, one or two, are
consumed on its way (`Disposing`).  `OthersKeep` shows once that steps of other
requests disturb none of it, since documents that were removed stay removed
(`TokensPersist`) and what was granted stays granted (`AuthzPersist`).

**`TokensSessionProofs`** has `OneAccessTokenAtATime`, `RevokedSessionsAreDead`
and `AuthorizationsOutliveSessions`, about the plain code flow. `Lineage` first:
every token descends from one the authorization endpoint issued for the same
authorization, and requests present only tokens that an answer has handed out. So
all tokens of a plain code flow belong to one chain, and `SessionsNeverFork`
applies: there is one live grant (`Single`), or one request that owes what it
consumed a grant for; while an access token is owed there is none, and a live
grant is held by whoever still owes (`Sole`). After a refresh token was revoked
nobody holds a grant or owes anything (`Buried`), and the access token the
revocation still has to delete is the only one there is (`Cleaning`). A request
that has stored a refresh token and answers has extended the authorization to its
date (`Covered`).

**`AuthorizationFlowProofs`** has `FlowTyped`, `SpentSessionsAreForgotten`,
`IdTokensHaveNonces`, `AnswersAreAsRequested`, `SilentRequestsStaySilent` and
`RequestedFormsAreShown`, for any number of tabs, users
and clients.  The invariant says that no cookie and no other tab knows a document
before its tab was answered for the first time (`Own`), that what a cookie names
exists (`Known`), that the user of a document is one it was bound to and that it has
a nonce if it has to (`Stored`), and of each tab what its place in the code implies
(`Placed`), what the first half of the endpoint has made sure of (`Admitted`), what
the fetched document says (`Settled`), that a user seen in a document is one it
was bound to (`Bound`) and what an answer contains (`Fulfilled`).  `StepOf` is the
frame: a step of one tab changes documents only in directions that the others do
not notice.

It also has `FlowsKeepTheirPromise`: `Spec => Promised!Spec`. From the same
invariant, creating a document starts a flow (`CreateSeen`: no tab creates one
twice), an update binds its user or is not seen, recording a consent agrees to the
client of the document, and the last thing issued answers the flow (`IssueSeen`):
`validate()` lets a request pass only if the user it has seen has consented, that
user is one of the document's (`Bound`), and neither is ever taken back. The field
`consent` plays no part in the argument, whoever writes it. Cookies, pages,
failures and everything else are not seen (`Unseen`).

**`KeysProofs`** has `KeysTyped`, `LateProcessesUseStoredSecrets` and
`WarmKeystoresAreComplete`.  The last one is the delicate one: calls find each
other's keystore half full and rely on it, or replace it by an empty one.
`Covered` says that in a process which has begun to fill its keystore, either
nothing is missing or one single call still adds all that is.

**`ServerProofs`** has `ServerTyped`, `ConnectionsAreReturned`,
`SequentialRequestsKeepTheirConnection` and `OnlyRefusalsStrand`, for any number
of requests and failures. What a request has before it is a sequence of calls from
the table of handlers, so the first half of the module is about that table. A call
leads from one place to another (`Moves`), a place being the finally blocks around
it and whether the handler has not connected yet, has connected or has closed the
connection. `Walk` puts calls together; `Steady` says of a piece of a handler that
it leaves the finally blocks as it found them, one lemma for each piece of code;
`SteadyStages` concludes this of every stage of every handler, and that it queries
outside a finally block only where the code does (`Leaky`). `Handling` says that a
running request is on such a walk to the end of its stage, which every action
keeps (`EnterHandling` for the next stage); type correctness follows. `Waiting`
says who waits for what. For `ConnectionIsReturned`, an open connection is owed a
close (`Returned`): by a request that has one before it or waits until it can, by
a close that is late, or by a request that has leaked it. For the sequential
property, requests that run at once have met (`Meeting`), and a request that has
met nobody, where no close was left behind (`Lone`), can tell from its place what
became of the connection (`Settled`). A request that waits for a connection to
open has met the one that opens it, and the refusal of that one is remembered
(`Refusals`).

**`AccountsProofs`** has `AccountsTyped`, `PasswordsAreHashedOnce`,
`ClientSecretsStay` and `ConsentsStay`. `Safe` says of each caller that what it
holds has been hashed as often as its place in `save()` (`Draft`) or in an update
(`Target`) implies, and that drafts which wait to be inserted have ids of their
own (`Apart`).

Model-checked only: liveness (`EveryRequestAnswered`, `FlowEnds`,
`EveryCallAnswered`, `EveryResponseEnds`). ENABLED and fairness arguments are out
of the prover's reach. Every invariant and action property of a passing run is a
theorem.

## 5. Not modelled

* Cryptography, password hashing and encryption at rest beyond "hashed so often",
  encoding, HTML, headers and the wording of errors: they change no state.  PKCE
  and the hash of a code are a comparison after a hash.
* Of an authorization request: redirect_uri, state, scope, PKCE parameters and the
  response modes, the formats of all parameters, and other fields of a document that
  a request may give as parameters, such as expires_at.  `Tokens` has a consent that
  is given once: what takes it back, or writes it otherwise, is in
  `AuthorizationFlow`.
* The comparison of a password at the login, which is a choice in
  `AuthorizationFlow`.
* Schema validation beyond consent, user, ids, secrets and passwords; the profile
  fields of users and their virtuals.
* HS* keys of clients and JWE.
* `lib/cors`, which no endpoint calls.
* The discovery document, which is constant.
* Reading a body and finding a bearer token in a request: they appear as a check
  that may throw.

## 6. Plan

Done: the models of all parts that keep state, the refinements of `GrantChain` and
`AuthorizationPromise`, and a theorem for every safety property that the runs check.

Left: what liveness owes to safety can still be proved, such as that a request which
is running always has a step before it or waits for an event that can come
(`Server`), or that a flow which shows a form makes progress with each one that is
submitted (`AuthorizationFlow`).
