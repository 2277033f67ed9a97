--------------------------- MODULE AuthorizationFlow ---------------------------
(***************************************************************************)
(* A browser with several tabs that goes through the authorization         *)
(* endpoint, the login and the consent form.                               *)
(*                                                                         *)
(* The provider keeps the state of a flow in an authorization document     *)
(* and tells flows apart only by cookies, which all tabs of the browser    *)
(* share: `authorization` (the id of the document), `sub` (the user, for   *)
(* one flow) and `user` (the user, when a session was asked for).  A       *)
(* request works with the cookies it was sent with, while the responses    *)
(* of other tabs may change the browser's.                                 *)
(*                                                                         *)
(* A tab starts one flow.  A document is created only by the request that  *)
(* starts a flow, so documents are named after the tab whose they are.     *)
(*                                                                         *)
(* A definition marked `Fault` is no part of the specification: it is the  *)
(* definition below it with a mistake that a property has to notice.       *)
(***************************************************************************)
EXTENDS Integers, FiniteSets, SequencesExt

CONSTANTS
  Tab,            \* tabs of one browser, each starting one flow
  User,           \* end users who may log in with this browser
  Client,         \* registered clients
  Prompts,        \* values of the prompt parameter, sets of PROMPT
  Asks,           \* what flows ask for: values of response_type and nonce
  Consents,       \* values of the parameter consent that requests come with
  CookiesExpire,  \* whether cookies may reach the end of their lifetime
  None

ASSUME PromptsAssumption == Prompts \subseteq SUBSET {"none", "login", "consent"}
ASSUME AsksAssumption == Asks \subseteq [type : Seq({"code", "id_token", "token"}), nonce : BOOLEAN]
ASSUME ConsentsAssumption == Consents \subseteq {"absent", "true", "false"}
ASSUME ExpiryAssumption == CookiesExpire \in BOOLEAN
ASSUME NoneAssumption == None \notin (Tab \cup User \cup Client)

VARIABLES
  jar,       \* the cookies of the browser
  doc,       \* the authorization document of each flow
  consents,  \* the clients each user has consented to
  pc,        \* the page a tab shows, or where its request is
  params,    \* the parameters of the request a tab has sent
  sent,      \* the cookies it was sent with
  view       \* this.doc: the document as the request has fetched it

vars == <<jar, doc, consents, pc, params, sent, view>>

Cookies == [authorization : Tab \cup {None}, sub : User \cup {None},
            user : User \cup {None}]

(* RESPONSE_TYPE_FLOW.  defineFlow takes response types in this order only *)
CodeFlow == {<<"code">>}
ImplicitFlow == {<<"id_token">>, <<"id_token", "token">>}
HybridFlow ==
  {<<"code", "id_token">>, <<"code", "token">>, <<"code", "id_token", "token">>}

(* `users` remembers everyone a document was bound to.                     *)
AuthorizationDoc ==
  [client : Client \cup {None}, user : User \cup {None}, users : SUBSET User,
   prompt : SUBSET {"none", "login", "consent"}, consent : BOOLEAN,
   type : CodeFlow \cup ImplicitFlow \cup HybridFlow \cup {<<>>}, nonce : BOOLEAN]

NoDoc == [client |-> None, user |-> None, users |-> {}, prompt |-> {},
          consent |-> FALSE, type |-> <<>>, nonce |-> FALSE]

(* client is None when the endpoint is called without parameters, by the   *)
(* redirect that follows a login or a consent.  `consent` is no parameter  *)
(* of OpenID Connect, but every parameter is handed on to the document.    *)
Params == [client : Client \cup {None}, prompt : SUBSET {"none", "login", "consent"},
           ask : Asks \cup {[type |-> <<>>, nonce |-> FALSE]},
           consent : {"absent", "true", "false"}]

(* `unset` are the fields for which the document had no value when it was  *)
(* fetched, `got` is what has been issued for the answer.                  *)
View == [doc : Tab \cup {None}, user : User \cup {None},
         prompt : SUBSET {"none", "login", "consent"}, unset : SUBSET {"user", "consent"},
         nonce : BOOLEAN, got : SUBSET {"code", "token", "id_token"}]

Page == {"blank", "login", "consent", "answer", "error", "failed"}
Initialising == {"load", "create", "find", "update", "rewrite"}
Serving == Initialising \cup {"validate", "issue", "consenting"}

TypeOK ==
  /\ jar \in Cookies
  /\ doc \in [Tab -> AuthorizationDoc]
  /\ consents \in [User -> SUBSET Client]
  /\ pc \in [Tab -> Page \cup Serving]
  /\ params \in [Tab -> Params]
  /\ sent \in [Tab -> Cookies]
  /\ view \in [Tab -> View]

NoCookies == [authorization |-> None, sub |-> None, user |-> None]
NoParams == [client |-> None, prompt |-> {}, ask |-> [type |-> <<>>, nonce |-> FALSE],
             consent |-> "absent"]
NoView == [doc |-> None, user |-> None, prompt |-> {}, unset |-> {},
           nonce |-> FALSE, got |-> {}]

(* The browser may hold a session, and users may have consented before.    *)
Init ==
  /\ jar \in {[NoCookies EXCEPT !.user = u] : u \in User \cup {None}}
  /\ doc = [t \in Tab |-> NoDoc]
  /\ consents \in [User -> SUBSET Client]
  /\ pc = [t \in Tab |-> "blank"]
  /\ params = [t \in Tab |-> NoParams]
  /\ sent = [t \in Tab |-> NoCookies]
  /\ view = [t \in Tab |-> NoView]

-----------------------------------------------------------------------------
Goto(t, label) == pc' = [pc EXCEPT ![t] = label]

(* cookies.get('user') || cookies.get('sub')                               *)
UserOf(cookies) == IF cookies.user # None THEN cookies.user ELSE cookies.sub

Session(t) == sent[t].authorization
Authenticated(t) == UserOf(sent[t])

(* The request's parameters win over those of the stored document.         *)
RequestedClient(t) ==
  IF params[t].client # None THEN params[t].client ELSE doc[Session(t)].client

(* Fault: the stored response_type is not merged in.                       *)
TypeOfTheRequest(t) ==
  IF params[t].ask.type # <<>> THEN params[t].ask.type ELSE <<"code">>

RequestedType(t) ==
  IF params[t].ask.type # <<>> THEN params[t].ask.type
  ELSE IF Session(t) # None THEN doc[Session(t)].type ELSE <<>>

RequestedNonce(t) ==
  params[t].ask.nonce \/ (Session(t) # None /\ doc[Session(t)].nonce)

(* The strategy is that of the request, but what a token or an id_token    *)
(* depends on is the response_type of the document.                        *)
Owed(t) ==
  LET stored == ToSet(doc[view[t].doc].type)
  IN
  CASE RequestedType(t) \in CodeFlow     -> {"code"}
    [] RequestedType(t) \in ImplicitFlow -> {"id_token"} \cup (stored \cap {"token"})
    [] OTHER                             -> {"code"} \cup (stored \cap {"token", "id_token"})

(* The request of a tab is answered with a page; its local variables are   *)
(* gone, but for what an answer to the client says.                        *)
Answer(t, page) ==
  /\ Goto(t, page)
  /\ params' = [params EXCEPT ![t] = NoParams]
  /\ sent' = [sent EXCEPT ![t] = NoCookies]
  /\ view' = [view EXCEPT ![t] =
       IF page = "answer"
         THEN [NoView EXCEPT !.doc = view[t].doc, !.nonce = view[t].nonce, !.got = Owed(t)]
         ELSE NoView]

(* The browser sends a request to the authorization endpoint.              *)
Send(t, p, cookies) ==
  /\ params' = [params EXCEPT ![t] = p]
  /\ sent' = [sent EXCEPT ![t] = cookies]
  /\ Goto(t, "load")

StartFlow(t, client, prompt, ask, consent) ==
  /\ pc[t] = "blank"
  /\ Send(t, [client |-> client, prompt |-> prompt, ask |-> ask, consent |-> consent], jar)
  /\ UNCHANGED <<jar, doc, consents, view>>

(* Forms redirect to redirect_to, the endpoint without parameters.         *)
Resume(t, cookies) == Send(t, NoParams, cookies)

CookieExpires(name) ==
  /\ CookiesExpire
  /\ jar[name] # None
  /\ jar' = [jar EXCEPT ![name] = None]
  /\ UNCHANGED <<doc, consents, pc, params, sent, view>>

-----------------------------------------------------------------------------
(* The authorization endpoint, first half: building the request from its   *)
(* parameters and the stored document, then init().                        *)

(* Fault: prompt=none does not look at the consent.                        *)
PromptSatisfiedByLogin(t) ==
  "none" \in params[t].prompt =>
    params[t].prompt = {"none"} /\ Authenticated(t) # None

(* validatePrompt                                                          *)
PromptSatisfied(t) ==
  "none" \in params[t].prompt =>
    /\ params[t].prompt = {"none"}
    /\ Authenticated(t) # None
    /\ RequestedClient(t) \in consents[Authenticated(t)]

(* Fault: the hybrid flow does not ask for a nonce.                        *)
NonceOfImplicitFlow(t) ==
  RequestedType(t) \in ImplicitFlow => RequestedNonce(t)

(* prevalidate() of the implicit and of the hybrid strategy                *)
NonceSatisfied(t) ==
  "id_token" \in ToSet(RequestedType(t)) => RequestedNonce(t)

(* getAuthenticationFlow() and prevalidate()                               *)
Acceptable(t) ==
  /\ RequestedType(t) \in CodeFlow \cup ImplicitFlow \cup HybridFlow
  /\ NonceSatisfied(t)
  /\ PromptSatisfied(t)

(* An error of the first half is reported to the client's redirect_uri.    *)
ReportError(t) ==
  /\ jar' = [jar EXCEPT !.authorization = None, !.sub = None]
  /\ Answer(t, "error")
  /\ UNCHANGED <<doc, consents>>

(* Neither parameters nor a session: there is no redirect_uri, a 400.      *)
LoadNothing(t) ==
  /\ pc[t] = "load"
  /\ params[t].client = None /\ Session(t) = None
  /\ Answer(t, "failed")
  /\ UNCHANGED <<jar, doc, consents>>

Load(t) ==
  /\ pc[t] = "load"
  /\ params[t].client # None \/ Session(t) # None
  /\ IF Acceptable(t)
       THEN /\ Goto(t, IF Session(t) = None THEN "create" ELSE "find")
            /\ UNCHANGED <<jar, doc, consents, params, sent, view>>
       ELSE ReportError(t)

Fetched(t, d, user, prompt, nonce, unset) ==
  view' = [view EXCEPT ![t] =
    [doc |-> d, user |-> user, prompt |-> prompt, unset |-> unset,
     nonce |-> nonce, got |-> {}]]

(* The pre-hook of validate: consent is not taken without its user.        *)
ConsentIsGiven(t) ==
  params[t].consent = "true" =>
    /\ Authenticated(t) # None
    /\ params[t].client \in consents[Authenticated(t)]

Create(t) ==
  /\ pc[t] = "create" /\ ConsentIsGiven(t)
  /\ doc' = [doc EXCEPT ![t] =
       [client |-> params[t].client,
        user |-> Authenticated(t), users |-> {Authenticated(t)} \ {None},
        prompt |-> params[t].prompt, consent |-> params[t].consent = "true",
        type |-> params[t].ask.type, nonce |-> params[t].ask.nonce]]
  /\ Fetched(t, t, Authenticated(t), params[t].prompt, params[t].ask.nonce, {})
  /\ Goto(t, "validate")
  /\ UNCHANGED <<jar, consents, params, sent>>

CreateNothing(t) ==
  /\ pc[t] = "create" /\ ~ConsentIsGiven(t)
  /\ ReportError(t)

Unset(d) ==
  {field \in {"user", "consent"} :
     IF field = "user" THEN doc[d].user = None ELSE ~doc[d].consent}

(* Fault: a prompt that is stored already is not written again.            *)
AfterFindOfAnyPrompt(t, d) ==
  IF \/ doc[d].user = None
     \/ params[t].prompt # {} /\ doc[d].prompt = {}
     \/ params[t].ask.nonce /\ ~doc[d].nonce
     \/ params[t].consent # "absent" /\ ~doc[d].consent
    THEN {"update"}
    ELSE IF params[t].client # None THEN {"update", "validate"} ELSE {"validate"}

(* sanitizeUpdate keeps the parameters the document has no value for: the  *)
(* user as long as none is bound, even if nobody is logged in, the prompt, *)
(* which is never seen, the nonce, a consent as long as there is none, and *)
(* possibly others, like the state.                                        *)
AfterFind(t, d) ==
  IF \/ doc[d].user = None
     \/ params[t].prompt # {}
     \/ params[t].ask.nonce /\ ~doc[d].nonce
     \/ params[t].consent # "absent" /\ ~doc[d].consent
    THEN {"update"}
    ELSE IF params[t].client # None THEN {"update", "validate"} ELSE {"validate"}

(* Fault: findById returns the stored prompt.                              *)
FindWithPrompt(t) ==
  LET d == Session(t) IN
  /\ pc[t] = "find"
  /\ Fetched(t, d, doc[d].user, doc[d].prompt, doc[d].nonce, Unset(d))
  /\ \E label \in AfterFind(t, d) : Goto(t, label)
  /\ UNCHANGED <<jar, doc, consents, params, sent>>

(* findById leaves the stored prompt out.                                  *)
Find(t) ==
  LET d == Session(t) IN
  /\ pc[t] = "find"
  /\ Fetched(t, d, doc[d].user, {}, doc[d].nonce, Unset(d))
  /\ \E label \in AfterFind(t, d) : Goto(t, label)
  /\ UNCHANGED <<jar, doc, consents, params, sent>>

(* The document with the fields that sanitizeUpdate has kept: an update is *)
(* not validated, so a consent needs no user here.                         *)
Updated(t) ==
  LET d     == Session(t)
      binds == "user" \in view[t].unset /\ Authenticated(t) # None
  IN
  [doc[d] EXCEPT
    !.user = IF binds THEN Authenticated(t) ELSE @,
    !.users = IF binds THEN @ \cup {Authenticated(t)} ELSE @,
    !.prompt = IF params[t].prompt # {} THEN params[t].prompt ELSE @,
    !.nonce = @ \/ params[t].ask.nonce,
    !.consent = IF params[t].consent # "absent" /\ "consent" \in view[t].unset
                  THEN params[t].consent = "true" ELSE @]

(* The pre-hook of findOneAndUpdate awaits this.update(), which is the     *)
(* query it was called for: the update is written there ...                *)
UpdateInHook(t) ==
  /\ pc[t] = "update"
  /\ doc' = [doc EXCEPT ![Session(t)] = Updated(t)]
  /\ Goto(t, "rewrite")
  /\ UNCHANGED <<jar, consents, params, sent, view>>

(* ... and once more by findByIdAndUpdate, which returns the whole         *)
(* document, with its prompt.                                              *)
Update(t) ==
  LET new == Updated(t) IN
  /\ pc[t] = "rewrite"
  /\ doc' = [doc EXCEPT ![Session(t)] = new]
  /\ Fetched(t, Session(t), new.user, new.prompt, new.nonce, {})
  /\ Goto(t, "validate")
  /\ UNCHANGED <<jar, consents, params, sent>>

-----------------------------------------------------------------------------
(* Second half: responsePayload().                                         *)

(* Fault: the cookie holds the id of the client.                           *)
ClientCookie(t) == IF Session(t) = None THEN doc[view[t].doc].client ELSE jar.authorization

(* The cookie that init() has set, if the request came without one.        *)
SessionCookie(t) == IF Session(t) = None THEN view[t].doc ELSE jar.authorization

ToLogin(t) ==
  /\ jar' = [authorization |-> SessionCookie(t), sub |-> None, user |-> None]
  /\ Answer(t, "login")
  /\ UNCHANGED <<doc, consents>>

ToConsent(t) ==
  /\ jar' = [jar EXCEPT !.authorization = SessionCookie(t)]
  /\ Answer(t, "consent")
  /\ UNCHANGED <<doc, consents>>

NeedsLogin(t) == "login" \in view[t].prompt

(* Fault: a consent that the document has already is believed.             *)
NeedsConsentOnce(t) ==
  \/ "consent" \in view[t].prompt
  \/ /\ view[t].user # None /\ ~doc[view[t].doc].consent
     /\ doc[view[t].doc].client \notin consents[view[t].user]

NeedsConsent(t) ==
  \/ "consent" \in view[t].prompt
  \/ view[t].user # None /\ doc[view[t].doc].client \notin consents[view[t].user]

(* The prompts are looked at before the user, and login before consent.    *)
Validate(t) ==
  /\ pc[t] = "validate"
  /\ \/ /\ \/ NeedsLogin(t)
           \/ view[t].user = None /\ ~NeedsConsent(t)
        /\ ToLogin(t)
     \/ ~NeedsLogin(t) /\ NeedsConsent(t) /\ ToConsent(t)
     \/ /\ ~NeedsLogin(t) /\ ~NeedsConsent(t) /\ view[t].user # None
        /\ doc' = [doc EXCEPT ![view[t].doc].consent = TRUE]
        /\ Goto(t, "issue")
        /\ UNCHANGED <<jar, consents, params, sent, view>>

(* Codes come before tokens, tokens before id_tokens.                      *)
NextIssued(t) ==
  LET left == Owed(t) \ view[t].got IN
  IF "code" \in left THEN "code" ELSE IF "token" \in left THEN "token" ELSE "id_token"

Final(t) == Owed(t) = view[t].got \cup {NextIssued(t)}

IssueNext(t) ==
  /\ pc[t] = "issue" /\ ~Final(t)
  /\ view' = [view EXCEPT ![t].got = @ \cup {NextIssued(t)}]
  /\ UNCHANGED <<jar, doc, consents, pc, params, sent>>

(* Fault: the authorization cookie outlives the code.                      *)
IssueLastKeepingCookie(t) ==
  /\ pc[t] = "issue" /\ Final(t)
  /\ jar' = [jar EXCEPT !.sub = None]
  /\ Answer(t, "answer")
  /\ UNCHANGED <<doc, consents>>

(* With the last one issued the client is answered, with the state stored  *)
(* in the document; the cookies of the flow are cleared.                   *)
IssueLast(t) ==
  /\ pc[t] = "issue" /\ Final(t)
  /\ jar' = [jar EXCEPT !.authorization = None, !.sub = None]
  /\ Answer(t, "answer")
  /\ UNCHANGED <<doc, consents>>

(* A database call throws: in the first half this is reported to the       *)
(* client, if it is known by then; later it is a 500 that still carries    *)
(* the new cookie.                                                         *)
Fail(t) ==
  \/ /\ pc[t] \in Initialising
     /\ pc[t] = "load" => params[t].prompt = {"none"}
     /\ ReportError(t)
  \/ /\ pc[t] \in {"validate", "issue"}
     /\ jar' = [jar EXCEPT !.authorization = SessionCookie(t)]
     /\ Answer(t, "failed")
     /\ UNCHANGED <<doc, consents>>
  \/ /\ pc[t] \in {"load", "consenting"}
     /\ Answer(t, "failed")
     /\ UNCHANGED <<jar, doc, consents>>

-----------------------------------------------------------------------------
(* The login form.                                                         *)

SubmitLogin(t, user, cookie) ==
  LET cookies == IF cookie = "user"
                   THEN [jar EXCEPT !.sub = None, !.user = user]
                   ELSE [jar EXCEPT !.sub = user]
  IN
  /\ pc[t] = "login"
  /\ jar' = cookies
  /\ Resume(t, cookies)
  /\ UNCHANGED <<doc, consents, view>>

(* A wrong password clears `sub` before it is found out.                   *)
FailLogin(t) ==
  /\ pc[t] = "login"
  /\ jar' = [jar EXCEPT !.sub = None]
  /\ UNCHANGED <<doc, consents, pc, params, sent, view>>

-----------------------------------------------------------------------------
(* The consent form.                                                       *)

SubmitConsent(t) ==
  /\ pc[t] = "consent"
  /\ sent' = [sent EXCEPT ![t] = jar]
  /\ Goto(t, "consenting")
  /\ UNCHANGED <<jar, doc, consents, params, view>>

(* Without a user the client gets an error; no cookie is cleared.          *)
RecordConsent(t) ==
  LET user == Authenticated(t) IN
  /\ pc[t] = "consenting"
  /\ IF Session(t) = None \/ user = None
       THEN /\ Answer(t, IF Session(t) = None THEN "failed" ELSE "error")
            /\ UNCHANGED consents
       ELSE /\ consents' = [consents EXCEPT ![user] = @ \cup {doc[Session(t)].client}]
            /\ Resume(t, jar)
            /\ UNCHANGED view
  /\ UNCHANGED <<jar, doc>>

DenyConsent(t) ==
  /\ pc[t] = "consent"
  /\ Goto(t, IF jar.authorization = None THEN "failed" ELSE "error")
  /\ UNCHANGED <<jar, doc, consents, params, sent, view>>

-----------------------------------------------------------------------------
Endpoint(t) ==
  \/ LoadNothing(t) \/ Load(t) \/ Create(t) \/ CreateNothing(t) \/ Find(t) \/ Update(t)
  \/ UpdateInHook(t)
  \/ Validate(t) \/ IssueNext(t) \/ IssueLast(t) \/ RecordConsent(t)

(* The end user goes on.                                                   *)
UserActs(t) ==
  \/ \E user \in User, cookie \in {"user", "sub"} : SubmitLogin(t, user, cookie)
  \/ SubmitConsent(t)

Next ==
  \/ \E t \in Tab :
       \/ \E client \in Client, prompt \in Prompts, ask \in Asks :
          \E consent \in Consents : StartFlow(t, client, prompt, ask, consent)
       \/ Endpoint(t) \/ Fail(t)
       \/ UserActs(t) \/ FailLogin(t) \/ DenyConsent(t)
  \/ \E name \in {"authorization", "sub", "user"} : CookieExpires(name)

Spec == Init /\ [][Next]_vars

(* Every promise settles, and a user who sees a form fills it in.          *)
FairSpec == Spec /\ \A t \in Tab : WF_vars(Endpoint(t)) /\ WF_vars(UserActs(t))

-----------------------------------------------------------------------------
(* Properties.                                                             *)


(* What the flow promises to users and clients, read off documents and     *)
(* tabs.                                                                   *)
Promised == INSTANCE AuthorizationPromise WITH
  Flow <- Tab,
  client <- [t \in Tab |-> doc[t].client],
  users <- [t \in Tab |-> doc[t].users],
  answered <- [t \in Tab |-> IF pc[t] = "answer" THEN view[t].doc ELSE None]

(* A flow keeps its client, a client is answered once and only for a flow  *)
(* one of whose users has consented to the client of that flow, and no     *)
(* consent is taken back, however tabs pick up each other's documents and  *)
(* cookies (strategies/index.ts, responsePayload).                         *)
FlowPromise == Promised!Spec

(* Once a code was issued for a document, no request finds its cookie      *)
(* again: the next flow of the browser cannot pick up a finished session,  *)
(* in whatever order the responses of other tabs arrive.                   *)
SpentSessionIsForgotten ==
  \A t \in Tab : pc[t] = "answer" => jar.authorization # view[t].doc

(* A request with prompt=none that starts a session is never answered with *)
(* a page, although validate() looks the user and its consent up again     *)
(* after validatePrompt() has.                                             *)
SilentStaysSilent ==
  [][\A t \in Tab :
       params[t].prompt = {"none"} /\ Session(t) = None
         => ~(pc[t] \in Serving /\ pc'[t] \in {"login", "consent"})]_vars

(* A flow ends: logging in and consenting do not go round in circles.      *)
FlowEnds ==
  \A t \in Tab : pc[t] # "blank" ~> pc[t] \in {"answer", "error", "failed"}

RequestedForm(t) == IF "login" \in params[t].prompt THEN "login" ELSE "consent"

(* A request with prompt=login is answered with the login form whoever is  *)
(* logged in, and one with prompt=consent with the consent form, also when *)
(* it finds a document that has another prompt stored and other tabs write *)
(* theirs meanwhile, unless a call fails or the request is not acceptable  *)
(* (sanitizeUpdate and validate in AuthStrategy.ts).                       *)
RequestedFormIsShown ==
  [][\A t \in Tab :
       /\ params[t].prompt \cap {"login", "consent"} # {}
       /\ pc[t] \in Serving /\ pc'[t] \in Page
       => \/ pc'[t] = RequestedForm(t)
          \/ Fail(t) \/ CreateNothing(t)
          \/ pc[t] = "load" /\ ~Acceptable(t)]_vars

(* An id_token of the front channel has a nonce, although the nonce is     *)
(* asked for by the strategy of the request, and the id_token issued       *)
(* because of the response_type of a document that other requests find.    *)
IdTokenHasNonce ==
  \A t \in Tab : pc[t] = "answer" /\ "id_token" \in view[t].got => view[t].nonce

(* A tab that gets the answer of its own session gets what it asked for,   *)
(* however often login and consent have led it back without parameters.    *)
AnswerAsRequested ==
  \A t \in Tab :
    pc[t] = "answer" /\ view[t].doc = t => view[t].got = ToSet(doc[t].type)

=============================================================================
