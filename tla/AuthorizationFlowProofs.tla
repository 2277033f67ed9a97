------------------------ MODULE AuthorizationFlowProofs ------------------------
(***************************************************************************)
(* Theorems about AuthorizationFlow, for any number of tabs, users and     *)
(* clients, whatever the tabs ask for and however their requests and the   *)
(* shared cookies get mixed up.                                            *)
(***************************************************************************)
EXTENDS AuthorizationFlow, TLAPS

Flows == CodeFlow \cup ImplicitFlow \cup HybridFlow

Admission == {"create", "find", "update", "rewrite", "validate", "issue"}
Holding == {"update", "rewrite", "validate", "issue"}
Deciding == {"validate", "issue"}

(* A document that no cookie and no other tab knows about: its tab has not *)
(* begun, or still waits for the first answer.                             *)
Unshared(t) == pc[t] = "blank" \/ (params[t].client # None /\ Session(t) = None)

Own ==
  \A d \in Tab : Unshared(d) =>
    /\ jar.authorization # d
    /\ \A q \in Tab : sent[q].authorization # d /\ (q # d => view[q].doc # d)

(* What a cookie names has been created.                                   *)
Known ==
  \A d \in Tab : jar.authorization = d \/ (\E q \in Tab : sent[q].authorization = d)
    => doc[d].client # None

(* Where a request is decides what it knows.                               *)
Placed(t) ==
  /\ pc[t] \in Page \cup {"consenting"} => params[t] = NoParams
  /\ params[t].client = None => params[t] = NoParams
  /\ params[t].client # None => Session(t) # t
  /\ pc[t] = "create" => Session(t) = None
  /\ pc[t] \in {"find", "update", "rewrite"} => Session(t) # None
  /\ pc[t] \in Admission /\ Session(t) = None => params[t].client # None
  /\ pc[t] \in Holding => view[t].doc = IF Session(t) = None THEN t ELSE Session(t)
  /\ pc[t] = "answer" => view[t].doc # None
  /\ pc[t] \notin Holding \cup {"answer"} => view[t] = NoView
  /\ pc[t] \in {"blank", "create"} => doc[t].client = None
  /\ pc[t] = "load" /\ params[t].client # None /\ Session(t) = None => doc[t].client = None

(* What the first half has made sure of, and nothing takes away later.     *)
Admitted(t) ==
  pc[t] \in Admission =>
    /\ RequestedType(t) \in Flows
    /\ "id_token" \in ToSet(RequestedType(t)) => RequestedNonce(t)
    /\ params[t].prompt = {"none"} /\ Session(t) = None =>
         /\ Authenticated(t) # None
         /\ params[t].client \in consents[Authenticated(t)]

(* What this.doc says once it has been created, found or updated.          *)
Settled(t) ==
  pc[t] \in Deciding =>
    /\ "id_token" \in ToSet(RequestedType(t)) \cup ToSet(doc[view[t].doc].type)
         => view[t].nonce
    /\ params[t].prompt # {} => view[t].prompt = params[t].prompt
    /\ Session(t) = None => /\ view[t].user = Authenticated(t)
                            /\ doc[view[t].doc].client = params[t].client
                            /\ doc[view[t].doc].type = RequestedType(t)
    /\ pc[t] = "issue" => /\ params[t].prompt \cap {"login", "consent"} = {}
                          /\ view[t].user # None
                          /\ doc[view[t].doc].client \in consents[view[t].user]

(* The user a request has seen stays bound to the document.                *)
Bound(t) ==
  view[t].user # None =>
    /\ view[t].doc # None /\ doc[view[t].doc].user # None
    /\ view[t].user \in doc[view[t].doc].users

Fulfilled(t) ==
  pc[t] = "answer" =>
    /\ "id_token" \in view[t].got => view[t].nonce
    /\ view[t].doc = t => view[t].got = ToSet(doc[t].type)

Local(t) == Placed(t) /\ Admitted(t) /\ Settled(t) /\ Bound(t) /\ Fulfilled(t)

Stored ==
  \A d \in Tab :
    /\ doc[d].user # None => doc[d].user \in doc[d].users
    /\ "id_token" \in ToSet(doc[d].type) => doc[d].nonce

IInv ==
  /\ TypeOK /\ Own /\ Known /\ Stored /\ SpentSessionIsForgotten
  /\ \A t \in Tab : Local(t)

-----------------------------------------------------------------------------
(* What the response types stand for.                                      *)
LEMMA FlowFacts ==
  /\ <<>> \notin Flows
  /\ "id_token" \notin ToSet(<<>>)
  /\ \A f \in CodeFlow : f \notin ImplicitFlow /\ f \notin HybridFlow /\ ToSet(f) = {"code"}
  /\ \A f \in ImplicitFlow :
       /\ f \notin HybridFlow
       /\ "id_token" \in ToSet(f)
       /\ {"id_token"} \cup (ToSet(f) \cap {"token"}) = ToSet(f)
  /\ \A f \in HybridFlow : {"code"} \cup (ToSet(f) \cap {"token", "id_token"}) = ToSet(f)
<1>1. ToSet(<<>>) = {}
  BY DEF ToSet
<1>2. ToSet(<<"code">>) = {"code"} /\ ToSet(<<"id_token">>) = {"id_token"}
  BY DEF ToSet
<1>3. ToSet(<<"id_token", "token">>) = {"id_token", "token"}
  BY DEF ToSet
<1>4. ToSet(<<"code", "id_token">>) = {"code", "id_token"}
  BY DEF ToSet
<1>5. ToSet(<<"code", "token">>) = {"code", "token"}
  BY DEF ToSet
<1>6. ToSet(<<"code", "id_token", "token">>) = {"code", "id_token", "token"}
  BY DEF ToSet
<1>7. /\ <<>> \notin Flows
      /\ \A f \in CodeFlow : f \notin ImplicitFlow /\ f \notin HybridFlow
      /\ \A f \in ImplicitFlow : f \notin HybridFlow
  BY DEF Flows, CodeFlow, ImplicitFlow, HybridFlow
<1>8. \A f \in CodeFlow : ToSet(f) = {"code"}
  BY <1>2 DEF CodeFlow
<1>9. \A f \in ImplicitFlow :
        "id_token" \in ToSet(f) /\ {"id_token"} \cup (ToSet(f) \cap {"token"}) = ToSet(f)
  BY <1>2, <1>3 DEF ImplicitFlow
<1>10. \A f \in HybridFlow : {"code"} \cup (ToSet(f) \cap {"token", "id_token"}) = ToSet(f)
  BY <1>4, <1>5, <1>6 DEF HybridFlow
<1> QED
  BY <1>1, <1>7, <1>8, <1>9, <1>10

LEMMA InitIInv == Init => IInv
<1> SUFFICES ASSUME Init PROVE IInv
  OBVIOUS
<1>1. TypeOK
  BY DEF Init, TypeOK, Cookies, NoCookies, AuthorizationDoc, NoDoc, Params, NoParams, View,
         NoView, Page
<1>2. Own
  BY NoneAssumption DEF Init, Own, NoCookies, NoView
<1>3. Stored /\ Known
  BY FlowFacts, NoneAssumption DEF Init, Stored, Known, NoDoc, NoCookies
<1>4. SpentSessionIsForgotten
  BY DEF Init, SpentSessionIsForgotten
<1>5. ASSUME NEW t \in Tab PROVE Local(t)
  BY <1>5, NoneAssumption
     DEF Init, Local, Placed, Admitted, Settled, Bound, Fulfilled, Admission, Holding,
         Deciding, NoParams, NoView, NoDoc
<1> QED
  BY <1>1, <1>2, <1>3, <1>4, <1>5 DEF IInv

-----------------------------------------------------------------------------
(* A step of one tab.  The others keep what they know, documents keep what *)
(* they are about, and the cookies get no document that is not known but   *)
(* the tab's own, when it is answered.                                     *)
Grows(d) ==
  /\ doc'[d].type = doc[d].type /\ doc'[d].client = doc[d].client
  /\ doc[d].nonce => doc'[d].nonce
  /\ doc[d].user # None => doc'[d].user # None
  /\ doc[d].users \subseteq doc'[d].users

StepOf(t) ==
  /\ \A q \in Tab \ {t} : /\ pc'[q] = pc[q] /\ params'[q] = params[q]
                          /\ sent'[q] = sent[q] /\ view'[q] = view[q]
  /\ \A d \in Tab : d # t \/ ~Unshared(t) => Grows(d)
  /\ \A u \in User : consents[u] \subseteq consents'[u]
  /\ Unshared(t)' => Unshared(t)
  /\ \/ jar'.authorization \in {None, jar.authorization}
     \/ jar'.authorization = t /\ Unshared(t) /\ ~Unshared(t)' /\ doc'[t].client # None
  /\ sent'[t].authorization \in
       {None, sent[t].authorization, jar.authorization, jar'.authorization}
  /\ view'[t].doc \in {None, t, sent[t].authorization, view[t].doc}
  /\ pc'[t] = "answer" => jar'.authorization = None

LEMMA OthersStay ==
  ASSUME IInv, NEW t \in Tab, StepOf(t), NEW q \in Tab, q # t
  PROVE  Local(q)'
<1>1. /\ pc'[q] = pc[q] /\ params'[q] = params[q] /\ sent'[q] = sent[q] /\ view'[q] = view[q]
  BY DEF StepOf
<1>2. Local(q)
  BY DEF IInv
<1>3. \A d \in Tab : d \in {sent[q].authorization, view[q].doc} => Grows(d)
  BY DEF IInv, Own, StepOf
<1>4. sent[q].authorization \in Tab \cup {None} /\ view[q].doc \in Tab \cup {None}
  BY DEF IInv, TypeOK, Cookies, View
<1>5. UserOf(sent[q]) \in User \cup {None}
  BY DEF IInv, TypeOK, Cookies, UserOf
<1>6. Placed(q)'
  <2>1. doc'[q].client = doc[q].client
    BY DEF StepOf, Grows
  <2> QED
    BY <1>1, <1>2, <2>1 DEF Local, Placed, Session
<1>7. RequestedType(q)' = RequestedType(q)
  BY <1>1, <1>3, <1>4 DEF RequestedType, Session, Grows
<1>8. RequestedNonce(q) => RequestedNonce(q)'
  BY <1>1, <1>3, <1>4 DEF RequestedNonce, Session, Grows
<1>9. Admitted(q)'
  BY <1>1, <1>2, <1>5, <1>7, <1>8 DEF Local, Admitted, StepOf, Session, Authenticated
<1>10. pc[q] \in Deciding \cup {"answer"} => view[q].doc \in Tab
  BY <1>2, <1>4 DEF Local, Placed, Deciding, Holding, Session
<1>11. Settled(q)'
  <2>1. view[q].user # None => view[q].user \in User
    BY DEF IInv, TypeOK, View
  <2>2. \A u \in User : consents[u] \subseteq consents'[u]
    BY DEF StepOf
  <2> QED
    BY <1>1, <1>2, <1>3, <1>7, <1>10, <2>1, <2>2
       DEF Local, Settled, Grows, Session, Authenticated
<1>12. Bound(q)'
  BY <1>1, <1>2, <1>3, <1>4 DEF Local, Bound, Grows
<1>13. Fulfilled(q)'
  BY <1>1, <1>2, <1>3, <1>10 DEF Local, Fulfilled, Grows
<1> QED
  BY <1>6, <1>9, <1>11, <1>12, <1>13 DEF Local

LEMMA OwnStays ==
  ASSUME IInv, NEW t \in Tab, StepOf(t)
  PROVE  Own'
<1> SUFFICES ASSUME NEW d \in Tab, Unshared(d)', NEW q \in Tab
             PROVE  /\ jar'.authorization # d
                    /\ sent'[q].authorization # d
                    /\ q # d => view'[q].doc # d
  BY DEF Own
<1>1. Unshared(d)
  BY DEF StepOf, Unshared, Session
<1>2. /\ jar.authorization # d
      /\ \A r \in Tab : sent[r].authorization # d /\ (r # d => view[r].doc # d)
  BY <1>1 DEF IInv, Own
<1>3. jar'.authorization # d
  BY <1>2, NoneAssumption DEF StepOf
<1>4. CASE q = t
  BY <1>2, <1>3, <1>4, NoneAssumption DEF StepOf
<1>5. CASE q # t
  BY <1>2, <1>3, <1>5 DEF StepOf
<1> QED
  BY <1>4, <1>5

LEMMA SpentStays ==
  ASSUME IInv, NEW t \in Tab, StepOf(t), Local(t)'
  PROVE  SpentSessionIsForgotten'
<1> SUFFICES ASSUME NEW q \in Tab, pc'[q] = "answer"
             PROVE  jar'.authorization # view'[q].doc
  BY DEF SpentSessionIsForgotten
<1>1. CASE q = t
  BY <1>1 DEF StepOf, Local, Placed
<1>2. CASE q # t
  <2>1. pc[q] = "answer" /\ view'[q] = view[q]
    BY <1>2 DEF StepOf
  <2>2. jar.authorization # view[q].doc /\ view[q].doc # None
    BY <2>1 DEF IInv, SpentSessionIsForgotten, Local, Placed
  <2>3. Unshared(t) => view[q].doc # t
    BY <1>2 DEF IInv, Own
  <2> QED
    BY <2>1, <2>2, <2>3 DEF StepOf
<1> QED
  BY <1>1, <1>2

LEMMA KnownStays ==
  ASSUME IInv, NEW t \in Tab, StepOf(t)
  PROVE  Known'
<1> SUFFICES ASSUME NEW d \in Tab, NEW q \in Tab,
                    jar'.authorization = d \/ sent'[q].authorization = d
             PROVE  doc'[d].client # None
  BY DEF Known
<1>1. ASSUME \/ jar.authorization = d
             \/ \E r \in Tab : sent[r].authorization = d
      PROVE  doc'[d].client # None
  BY <1>1 DEF IInv, Own, Known, StepOf, Grows
<1>2. CASE jar'.authorization = d
  BY <1>1, <1>2, NoneAssumption DEF StepOf
<1>3. CASE sent'[q].authorization = d
  <2>1. CASE q = t
    BY <1>1, <1>2, <1>3, <2>1, NoneAssumption DEF StepOf
  <2>2. CASE q # t
    BY <1>1, <1>3, <2>2 DEF StepOf
  <2> QED
    BY <2>1, <2>2
<1> QED
  BY <1>2, <1>3

LEMMA Assembled ==
  ASSUME IInv, NEW t \in Tab, StepOf(t), Local(t)', TypeOK', Stored'
  PROVE  IInv'
BY OthersStay, OwnStays, KnownStays, SpentStays DEF IInv

-----------------------------------------------------------------------------
(* The actions of a tab.                                                   *)

LEMMA SameDocs ==
  ASSUME TypeOK, doc' = doc, consents' = consents
  PROVE  (\A d \in Tab : Grows(d)) /\ (\A u \in User : consents[u] \subseteq consents'[u])
BY DEF TypeOK, Grows

(* A request that ends with a page other than the client's leaves nothing  *)
(* behind.                                                                 *)
LEMMA AnswerStays ==
  ASSUME IInv, NEW t \in Tab, NEW page \in {"login", "consent", "error", "failed"},
         Answer(t, page), UNCHANGED <<doc, consents>>, jar' \in Cookies,
         \/ jar'.authorization \in {None, jar.authorization}
         \/ pc[t] \in Deciding /\ jar'.authorization = SessionCookie(t)
  PROVE  IInv'
<1>1. /\ pc' = [pc EXCEPT ![t] = page] /\ params' = [params EXCEPT ![t] = NoParams]
      /\ sent' = [sent EXCEPT ![t] = NoCookies] /\ view' = [view EXCEPT ![t] = NoView]
  BY DEF Answer, Goto
<1>2. NoParams \in Params /\ NoCookies \in Cookies /\ NoView \in View
  BY DEF NoParams, NoCookies, NoView, Params, Cookies, View
<1>3. TypeOK'
  BY <1>1, <1>2 DEF IInv, TypeOK, Page
<1>4. /\ pc'[t] = page /\ params'[t] = NoParams /\ sent'[t] = NoCookies /\ view'[t] = NoView
  BY <1>1 DEF IInv, TypeOK
<1>5. ~Unshared(t)'
  BY <1>4 DEF Unshared, NoParams
<1>6. \/ jar'.authorization \in {None, jar.authorization}
      \/ jar'.authorization = t /\ Unshared(t) /\ doc'[t].client # None
  BY DEF IInv, Local, Placed, Settled, SessionCookie, Deciding, Holding, Admission, Unshared
<1>7. StepOf(t)
  BY <1>1, <1>4, <1>5, <1>6, SameDocs DEF IInv, TypeOK, StepOf, NoCookies, NoView
<1>8. Local(t)'
  BY <1>4 DEF Local, Placed, Admitted, Settled, Bound, Fulfilled, Admission, Holding, Deciding,
              Session, NoParams, NoCookies, NoView, Page
<1>9. Stored'
  BY DEF IInv, Stored
<1> QED
  BY <1>3, <1>7, <1>8, <1>9, Assembled

LEMMA StartFlowStays ==
  ASSUME IInv, NEW t \in Tab, NEW client \in Client, NEW prompt \in Prompts, NEW ask \in Asks,
         NEW consent \in Consents, StartFlow(t, client, prompt, ask, consent)
  PROVE  IInv'
<1> DEFINE p == [client |-> client, prompt |-> prompt, ask |-> ask, consent |-> consent]
<1>1. /\ pc[t] = "blank" /\ pc' = [pc EXCEPT ![t] = "load"]
      /\ params' = [params EXCEPT ![t] = p] /\ sent' = [sent EXCEPT ![t] = jar]
      /\ UNCHANGED <<jar, doc, consents, view>>
  BY DEF StartFlow, Send, Goto
<1>2. p \in Params /\ p.client # None
  BY PromptsAssumption, ConsentsAssumption, NoneAssumption DEF Params
<1> HIDE DEF p
<1>3. TypeOK'
  BY <1>1, <1>2 DEF IInv, TypeOK, Serving, Initialising
<1>4. pc'[t] = "load" /\ params'[t] = p /\ sent'[t] = jar /\ view'[t] = view[t]
  BY <1>1 DEF IInv, TypeOK
<1>5. Unshared(t) /\ jar.authorization # t
  BY <1>1 DEF IInv, Own, Unshared
<1>6. view[t] = NoView /\ doc'[t].client = None
  BY <1>1 DEF IInv, Local, Placed, Holding
<1>7. StepOf(t)
  BY <1>1, <1>4, <1>5, SameDocs DEF IInv, TypeOK, StepOf
<1>8. Local(t)'
  BY <1>2, <1>4, <1>5, <1>6
     DEF Local, Placed, Admitted, Settled, Bound, Fulfilled, Admission, Holding, Deciding,
         Session, NoView, Page
<1>9. Stored'
  BY <1>1 DEF IInv, Stored
<1> QED
  BY <1>3, <1>7, <1>8, <1>9, Assembled

(* A form leads back to the endpoint, without parameters.                  *)
LEMMA ResumeStays ==
  ASSUME IInv, NEW t \in Tab, NEW cookies \in Cookies, pc[t] \in {"login", "consenting"},
         Resume(t, cookies), jar' \in Cookies, UNCHANGED <<doc, view>>,
         jar'.authorization = jar.authorization, cookies.authorization = jar.authorization,
         consents' \in [User -> SUBSET Client],
         \A u \in User : consents[u] \subseteq consents'[u]
  PROVE  IInv'
<1>1. /\ pc' = [pc EXCEPT ![t] = "load"] /\ params' = [params EXCEPT ![t] = NoParams]
      /\ sent' = [sent EXCEPT ![t] = cookies]
  BY DEF Resume, Send, Goto
<1>2. NoParams \in Params /\ NoParams.client = None
  BY DEF NoParams, Params
<1>3. TypeOK'
  BY <1>1, <1>2 DEF IInv, TypeOK, Serving, Initialising
<1>4. pc'[t] = "load" /\ params'[t] = NoParams /\ sent'[t] = cookies /\ view'[t] = view[t]
  BY <1>1 DEF IInv, TypeOK
<1>5. view[t] = NoView
  BY DEF IInv, Local, Placed, Holding
<1>6. StepOf(t)
  BY <1>1, <1>2, <1>4 DEF IInv, TypeOK, StepOf, Grows, Unshared
<1>7. Local(t)'
  BY <1>2, <1>4, <1>5
     DEF Local, Placed, Admitted, Settled, Bound, Fulfilled, Admission, Holding, Deciding,
         Session, NoView, Page
<1>8. Stored'
  BY DEF IInv, Stored
<1> QED
  BY <1>3, <1>6, <1>7, <1>8, Assembled

(* A step that only takes a cookie away.                                   *)
LEMMA CookieStays ==
  ASSUME IInv, jar' \in Cookies, jar'.authorization \in {None, jar.authorization},
         UNCHANGED <<doc, consents, pc, params, sent, view>>
  PROVE  IInv'
<1>1. TypeOK'
  BY DEF IInv, TypeOK
<1>2. Own'
  BY NoneAssumption DEF IInv, Own, Unshared, Session
<1>3. Stored' /\ Known'
  BY NoneAssumption DEF IInv, Stored, Known
<1>4. SpentSessionIsForgotten'
  BY DEF IInv, SpentSessionIsForgotten, Local, Placed
<1>5. ASSUME NEW t \in Tab PROVE Local(t)'
  BY <1>5 DEF IInv, Local, Placed, Admitted, Settled, Bound, Fulfilled, RequestedType,
              RequestedNonce, Session, Authenticated
<1> QED
  BY <1>1, <1>2, <1>3, <1>4, <1>5 DEF IInv

(* From the consent form to its handler, or to the page of a refusal.      *)
LEMMA ConsentFormStays ==
  ASSUME IInv, NEW t \in Tab, SubmitConsent(t) \/ DenyConsent(t)
  PROVE  IInv'
<1>1. PICK label \in {"consenting", "failed", "error"} : pc' = [pc EXCEPT ![t] = label]
  BY DEF SubmitConsent, DenyConsent, Goto
<1>2. PICK cookies \in {sent[t], jar} : sent' = [sent EXCEPT ![t] = cookies]
  BY DEF IInv, TypeOK, SubmitConsent, DenyConsent
<1>3. UNCHANGED <<jar, doc, consents, params, view>> /\ pc[t] = "consent"
  BY DEF SubmitConsent, DenyConsent
<1>4. cookies \in Cookies
  BY DEF IInv, TypeOK
<1>5. TypeOK'
  BY <1>1, <1>2, <1>3, <1>4 DEF IInv, TypeOK, Serving, Page
<1>6. /\ pc'[t] = label /\ sent'[t] = cookies /\ params'[t] = NoParams /\ view'[t] = NoView
  BY <1>1, <1>2, <1>3 DEF IInv, TypeOK, Local, Placed, Page, Holding
<1>7. StepOf(t)
  BY <1>1, <1>2, <1>3, <1>6, SameDocs
     DEF IInv, TypeOK, StepOf, Unshared, NoParams, NoView
<1>8. Local(t)'
  BY <1>6 DEF Local, Placed, Admitted, Settled, Bound, Fulfilled, Admission, Holding, Deciding,
              Session, NoParams, NoView, Page
<1>9. Stored'
  BY <1>3 DEF IInv, Stored
<1> QED
  BY <1>5, <1>7, <1>8, <1>9, Assembled

(* A request without a session creates a document of its own; one with a   *)
(* session finds what is stored.                                           *)
LEMMA LoadStays ==
  ASSUME IInv, NEW t \in Tab, pc[t] = "load", Acceptable(t),
         params[t].client # None \/ Session(t) # None,
         Goto(t, IF Session(t) = None THEN "create" ELSE "find"),
         UNCHANGED <<jar, doc, consents, params, sent, view>>
  PROVE  IInv'
<1>1. PICK label \in {"create", "find"} :
        pc' = [pc EXCEPT ![t] = label] /\ (label = "create" <=> Session(t) = None)
  BY DEF Goto
<1>2. TypeOK'
  BY <1>1 DEF IInv, TypeOK, Serving, Initialising
<1>3. pc'[t] = label /\ params'[t] = params[t] /\ sent'[t] = sent[t] /\ view'[t] = NoView
  BY <1>1 DEF IInv, TypeOK, Local, Placed, Holding
<1>4. StepOf(t)
  BY <1>1, <1>3, SameDocs DEF IInv, TypeOK, StepOf, Unshared, Session, NoView
<1>5. Placed(t)'
  BY <1>1, <1>3 DEF IInv, Local, Placed, Session, Admission, Holding, Page
<1>6. Admitted(t)'
  <2>1. RequestedType(t) \in Flows /\ ("id_token" \in ToSet(RequestedType(t)) => RequestedNonce(t))
    BY DEF Acceptable, NonceSatisfied, Flows
  <2>2. params[t].prompt = {"none"} /\ Session(t) = None =>
          Authenticated(t) # None /\ params[t].client \in consents[Authenticated(t)]
    BY DEF Acceptable, PromptSatisfied, RequestedClient
  <2> QED
    BY <1>3, <2>1, <2>2 DEF Admitted, RequestedType, RequestedNonce, Session, Authenticated
<1>7. Settled(t)' /\ Bound(t)' /\ Fulfilled(t)'
  BY <1>1, <1>3 DEF Settled, Bound, Fulfilled, Deciding, NoView
<1>8. Stored'
  BY DEF IInv, Stored
<1> QED
  BY <1>2, <1>4, <1>5, <1>6, <1>7, <1>8, Assembled DEF Local

LEMMA CreateStays ==
  ASSUME IInv, NEW t \in Tab, Create(t)
  PROVE  IInv'
<1> DEFINE new == [client |-> params[t].client,
                   user |-> Authenticated(t), users |-> {Authenticated(t)} \ {None},
                   prompt |-> params[t].prompt, consent |-> params[t].consent = "true",
                   type |-> params[t].ask.type, nonce |-> params[t].ask.nonce]
<1> DEFINE seen == [doc |-> t, user |-> Authenticated(t), prompt |-> params[t].prompt,
                    unset |-> {}, nonce |-> params[t].ask.nonce, got |-> {}]
<1>1. /\ pc[t] = "create" /\ pc' = [pc EXCEPT ![t] = "validate"]
      /\ doc' = [doc EXCEPT ![t] = new] /\ view' = [view EXCEPT ![t] = seen]
      /\ UNCHANGED <<jar, consents, params, sent>>
  BY DEF Create, Fetched, Goto
<1>2. Session(t) = None /\ params[t].client # None /\ Unshared(t)
  BY <1>1 DEF IInv, Local, Placed, Admission, Unshared
<1>3. /\ RequestedType(t) = params[t].ask.type /\ params[t].ask.type \in Flows
      /\ "id_token" \in ToSet(params[t].ask.type) => params[t].ask.nonce
  BY <1>1, <1>2, FlowFacts
     DEF IInv, Local, Admitted, Admission, RequestedType, RequestedNonce
<1>4. Authenticated(t) \in User \cup {None}
  BY DEF IInv, TypeOK, Cookies, Authenticated, UserOf
<1>5. params[t].client \in Client /\ params[t].ask.nonce \in BOOLEAN
      /\ params[t].prompt \in SUBSET {"none", "login", "consent"}
  <2>1. params[t] \in Params
    BY DEF IInv, TypeOK
  <2>2. \A a \in Asks \cup {[type |-> <<>>, nonce |-> FALSE]} : a.nonce \in BOOLEAN
    <3>1. ASSUME NEW a \in Asks PROVE a.nonce \in BOOLEAN
      BY AsksAssumption
    <3> DEFINE plain == [type |-> <<>>, nonce |-> FALSE]
    <3>2. plain.nonce \in BOOLEAN
      OBVIOUS
    <3> QED
      BY <3>1, <3>2, Zenon
  <2>3. params[t].ask \in Asks \cup {[type |-> <<>>, nonce |-> FALSE]}
    BY <2>1, Zenon DEF Params
  <2>4. params[t].client \in Client /\ params[t].prompt \in SUBSET {"none", "login", "consent"}
    BY <1>2, <2>1 DEF Params
  <2> QED
    BY <2>2, <2>3, <2>4, Zenon
<1>6. new \in AuthorizationDoc /\ seen \in View
  BY <1>3, <1>4, <1>5 DEF AuthorizationDoc, View, Flows
<1>7. /\ new.type = params[t].ask.type /\ new.nonce = params[t].ask.nonce
      /\ new.user = Authenticated(t) /\ new.client = params[t].client
      /\ new.users = {Authenticated(t)} \ {None}
      /\ seen.doc = t /\ seen.user = Authenticated(t) /\ seen.nonce = params[t].ask.nonce
      /\ seen.prompt = params[t].prompt
  OBVIOUS
<1> HIDE DEF new, seen
<1>8. TypeOK'
  BY <1>1, <1>6 DEF IInv, TypeOK, Serving
<1>9. /\ pc'[t] = "validate" /\ params'[t] = params[t] /\ sent'[t] = sent[t]
      /\ view'[t] = seen /\ doc'[t] = new
      /\ \A d \in Tab \ {t} : doc'[d] = doc[d]
  BY <1>1 DEF IInv, TypeOK
<1>10. StepOf(t)
  BY <1>1, <1>2, <1>7, <1>9 DEF IInv, TypeOK, StepOf, Unshared, Session, Grows
<1>11. Placed(t)'
  BY <1>1, <1>2, <1>7, <1>9, NoneAssumption
     DEF IInv, Local, Placed, Session, Admission, Holding, Page
<1>12. RequestedType(t)' = RequestedType(t) /\ (RequestedNonce(t) => RequestedNonce(t)')
  BY <1>2, <1>9, FlowFacts, <1>3 DEF RequestedType, RequestedNonce, Session
<1>13. Admitted(t)'
  BY <1>1, <1>9, <1>12 DEF IInv, Local, Admitted, Admission, Session, Authenticated
<1>14. Settled(t)'
  BY <1>2, <1>3, <1>7, <1>9, <1>12 DEF Settled, Session, Authenticated
<1>15. Bound(t)' /\ Fulfilled(t)'
  BY <1>7, <1>9, NoneAssumption DEF Bound, Fulfilled
<1>16. Stored'
  <2>1. new.user # None => new.user \in new.users
    BY <1>7
  <2>2. "id_token" \in ToSet(new.type) => new.nonce
    BY <1>3, <1>7
  <2> QED
    BY <1>1, <1>7, <1>9, <2>1, <2>2 DEF IInv, Stored
<1> QED
  BY <1>8, <1>10, <1>11, <1>13, <1>14, <1>15, <1>16, Assembled DEF Local

(* What an update leaves and what it writes (sanitizeUpdate).              *)
LEMMA UpdatedDocument ==
  ASSUME TypeOK, NEW t \in Tab, Session(t) # None
  PROVE  /\ Session(t) \in Tab
         /\ Updated(t) \in AuthorizationDoc
         /\ Updated(t).type = doc[Session(t)].type
         /\ Updated(t).client = doc[Session(t)].client
         /\ Updated(t).nonce = (doc[Session(t)].nonce \/ params[t].ask.nonce)
         /\ doc[Session(t)].user # None => Updated(t).user # None
         /\ Updated(t).user \in {doc[Session(t)].user} \cup Updated(t).users
         /\ doc[Session(t)].users \subseteq Updated(t).users
         /\ params[t].prompt # {} => Updated(t).prompt = params[t].prompt
<1>1. Session(t) \in Tab
  BY DEF TypeOK, Cookies, Session
<1>2. doc[Session(t)] \in AuthorizationDoc
  BY <1>1 DEF TypeOK
<1>3. Authenticated(t) \in User \cup {None}
  BY DEF TypeOK, Cookies, Authenticated, UserOf
<1>4. params[t].prompt \in SUBSET {"none", "login", "consent"}
  BY DEF TypeOK, Params
<1>5. (doc[Session(t)].nonce \/ params[t].ask.nonce) \in BOOLEAN
  OBVIOUS
<1> DEFINE d == doc[Session(t)]
<1> DEFINE binds == "user" \in view[t].unset /\ Authenticated(t) # None
<1> DEFINE user == IF binds THEN Authenticated(t) ELSE d.user
<1> DEFINE users == IF binds THEN d.users \cup {Authenticated(t)} ELSE d.users
<1> DEFINE prompt == IF params[t].prompt # {} THEN params[t].prompt ELSE d.prompt
<1> DEFINE nonce == d.nonce \/ params[t].ask.nonce
<1> DEFINE consent == IF params[t].consent # "absent" /\ "consent" \in view[t].unset
                        THEN params[t].consent = "true" ELSE d.consent
<1>6. Updated(t) = [d EXCEPT !.user = user, !.users = users, !.prompt = prompt, !.nonce = nonce,
                             !.consent = consent]
  BY <1>2 DEF Updated, AuthorizationDoc
<1>7. /\ user \in User \cup {None} /\ (d.user # None => user # None)
      /\ users \in SUBSET User /\ d.users \subseteq users /\ user \in {d.user} \cup users
  BY <1>2, <1>3 DEF AuthorizationDoc
<1>8. /\ prompt \in SUBSET {"none", "login", "consent"}
      /\ params[t].prompt # {} => prompt = params[t].prompt
  BY <1>2, <1>4 DEF AuthorizationDoc
<1>9. nonce \in BOOLEAN /\ consent \in BOOLEAN
  BY <1>2, <1>5 DEF AuthorizationDoc
<1> HIDE DEF binds, user, users, prompt, nonce, consent
<1>10. /\ Updated(t) \in AuthorizationDoc
       /\ Updated(t).type = d.type /\ Updated(t).client = d.client
       /\ Updated(t).nonce = nonce
       /\ Updated(t).user = user /\ Updated(t).users = users /\ Updated(t).prompt = prompt
  BY <1>2, <1>6, <1>7, <1>8, <1>9 DEF AuthorizationDoc
<1> QED
  BY <1>1, <1>7, <1>8, <1>10 DEF nonce

LEMMA FindStays ==
  ASSUME IInv, NEW t \in Tab, Find(t)
  PROVE  IInv'
<1> DEFINE d == doc[Session(t)]
<1> DEFINE seen == [doc |-> Session(t), user |-> d.user, prompt |-> {},
                    unset |-> Unset(Session(t)), nonce |-> d.nonce, got |-> {}]
<1>1. /\ pc[t] = "find" /\ view' = [view EXCEPT ![t] = seen]
      /\ UNCHANGED <<jar, doc, consents, params, sent>>
  BY DEF Find, Fetched
<1>2. PICK label \in AfterFind(t, Session(t)) : pc' = [pc EXCEPT ![t] = label]
  BY DEF Find, Goto
<1>3. label \in {"update", "validate"}
  BY <1>2 DEF AfterFind
<1>4. label = "validate" => params[t].prompt = {} /\ (params[t].ask.nonce => d.nonce)
  BY <1>2 DEF AfterFind
<1>5. Session(t) # None /\ Session(t) \in Tab /\ view[t] = NoView
  BY <1>1 DEF IInv, TypeOK, Cookies, Session, Local, Placed, Holding
<1>6. d \in AuthorizationDoc
  BY <1>5 DEF IInv, TypeOK
<1>7. seen \in View
  BY <1>5, <1>6 DEF View, AuthorizationDoc, Unset
<1>8. seen.doc = Session(t) /\ seen.user = d.user /\ seen.nonce = d.nonce
  OBVIOUS
<1> HIDE DEF seen
<1>9. TypeOK'
  BY <1>1, <1>2, <1>3, <1>7 DEF IInv, TypeOK, Serving, Initialising
<1>10. /\ pc'[t] = label /\ params'[t] = params[t] /\ sent'[t] = sent[t] /\ view'[t] = seen
  BY <1>1, <1>2 DEF IInv, TypeOK
<1>11. StepOf(t)
  BY <1>1, <1>2, <1>3, <1>8, <1>10, SameDocs DEF IInv, TypeOK, StepOf, Unshared, Session
<1>12. Placed(t)'
  BY <1>1, <1>3, <1>5, <1>8, <1>10 DEF IInv, Local, Placed, Session, Admission, Holding, Page
<1>13. Admitted(t)'
  BY <1>1, <1>3, <1>10
     DEF IInv, Local, Admitted, Admission, RequestedType, RequestedNonce, Session, Authenticated
<1>14. RequestedType(t)' = RequestedType(t) /\ doc' = doc
  BY <1>1, <1>10 DEF RequestedType, Session
<1>15. "id_token" \in ToSet(RequestedType(t)) => d.nonce \/ params[t].ask.nonce
  BY <1>1, <1>5 DEF IInv, Local, Admitted, Admission, RequestedNonce
<1>16. "id_token" \in ToSet(d.type) => d.nonce
  BY <1>5 DEF IInv, Stored
<1>17. Settled(t)'
  BY <1>1, <1>3, <1>4, <1>5, <1>8, <1>10, <1>14, <1>15, <1>16 DEF Settled, Deciding, Session
<1>18. Bound(t)' /\ Fulfilled(t)'
  BY <1>1, <1>3, <1>5, <1>8, <1>10 DEF IInv, Stored, Bound, Fulfilled
<1>19. Stored'
  BY <1>1 DEF IInv, Stored
<1> QED
  BY <1>9, <1>11, <1>12, <1>13, <1>17, <1>18, <1>19, Assembled DEF Local

(* Both writes of an update.                                               *)
LEMMA WriteGrows ==
  ASSUME IInv, NEW t \in Tab, Session(t) # None, pc[t] \in Admission,
         doc' = [doc EXCEPT ![Session(t)] = Updated(t)], UNCHANGED <<consents, params, sent>>
  PROVE  /\ doc' \in [Tab -> AuthorizationDoc]
         /\ doc'[Session(t)] = Updated(t)
         /\ \A d \in Tab : Grows(d)
         /\ Stored'
         /\ RequestedType(t)' = RequestedType(t) /\ (RequestedNonce(t) => RequestedNonce(t)')
<1>1. Session(t) \in Tab /\ Session(t)' = Session(t) /\ params'[t] = params[t]
  BY UpdatedDocument DEF IInv, Session
<1>2. /\ doc' \in [Tab -> AuthorizationDoc]
      /\ doc'[Session(t)] = Updated(t)
      /\ \A d \in Tab \ {Session(t)} : doc'[d] = doc[d]
  BY <1>1, UpdatedDocument DEF IInv, TypeOK
<1>3. \A d \in Tab : Grows(d)
  <2>1. Grows(Session(t))
    BY <1>1, <1>2, UpdatedDocument DEF IInv, Grows
  <2>2. \A d \in Tab \ {Session(t)} : Grows(d)
    BY <1>2 DEF Grows
  <2> QED
    BY <2>1, <2>2
<1>4. Stored'
  <2> SUFFICES ASSUME NEW d \in Tab
               PROVE  /\ doc'[d].user # None => doc'[d].user \in doc'[d].users
                      /\ "id_token" \in ToSet(doc'[d].type) => doc'[d].nonce
    BY DEF Stored
  <2>1. /\ doc[d].user # None => doc[d].user \in doc[d].users
        /\ "id_token" \in ToSet(doc[d].type) => doc[d].nonce
    BY DEF IInv, Stored
  <2>2. CASE d = Session(t)
    BY <1>2, <2>1, <2>2, UpdatedDocument DEF IInv
  <2>3. CASE d # Session(t)
    BY <1>2, <2>1, <2>3
  <2> QED
    BY <2>2, <2>3
<1>5. RequestedType(t)' = RequestedType(t) /\ (RequestedNonce(t) => RequestedNonce(t)')
  BY <1>1, <1>3 DEF RequestedType, RequestedNonce, Grows
<1> QED
  BY <1>2, <1>3, <1>4, <1>5

LEMMA UpdateInHookStays ==
  ASSUME IInv, NEW t \in Tab, UpdateInHook(t)
  PROVE  IInv'
<1>1. /\ pc[t] = "update" /\ pc' = [pc EXCEPT ![t] = "rewrite"]
      /\ doc' = [doc EXCEPT ![Session(t)] = Updated(t)]
      /\ UNCHANGED <<jar, consents, params, sent, view>>
  BY DEF UpdateInHook, Goto
<1>2. Session(t) # None /\ pc[t] \in Admission
  BY <1>1 DEF IInv, Local, Placed, Admission
<1>3. /\ doc' \in [Tab -> AuthorizationDoc]
      /\ \A d \in Tab : Grows(d)
      /\ Stored'
      /\ RequestedType(t)' = RequestedType(t) /\ (RequestedNonce(t) => RequestedNonce(t)')
  BY <1>1, <1>2, WriteGrows
<1>4. TypeOK'
  BY <1>1, <1>3 DEF IInv, TypeOK, Serving, Initialising
<1>5. /\ pc'[t] = "rewrite" /\ params'[t] = params[t] /\ sent'[t] = sent[t]
      /\ view'[t] = view[t]
  BY <1>1 DEF IInv, TypeOK
<1>6. StepOf(t)
  BY <1>1, <1>3, <1>5 DEF IInv, TypeOK, StepOf, Unshared, Session
<1>7. Placed(t)'
  BY <1>1, <1>2, <1>5 DEF IInv, Local, Placed, Session, Admission, Holding, Page
<1>8. Admitted(t)'
  BY <1>1, <1>2, <1>3, <1>5 DEF IInv, Local, Admitted, Session, Authenticated
<1>9. view[t].doc \in Tab \cup {None}
  BY DEF IInv, TypeOK, View
<1>10. Settled(t)' /\ Bound(t)' /\ Fulfilled(t)'
  BY <1>3, <1>5, <1>9 DEF IInv, Local, Settled, Bound, Fulfilled, Deciding, Grows
<1> QED
  BY <1>3, <1>4, <1>6, <1>7, <1>8, <1>10, Assembled DEF Local

LEMMA UpdateStays ==
  ASSUME IInv, NEW t \in Tab, Update(t)
  PROVE  IInv'
<1> DEFINE new == Updated(t)
<1> DEFINE seen == [doc |-> Session(t), user |-> new.user, prompt |-> new.prompt,
                    unset |-> {}, nonce |-> new.nonce, got |-> {}]
<1>1. /\ pc[t] = "rewrite" /\ pc' = [pc EXCEPT ![t] = "validate"]
      /\ doc' = [doc EXCEPT ![Session(t)] = Updated(t)]
      /\ view' = [view EXCEPT ![t] = seen]
      /\ UNCHANGED <<jar, consents, params, sent>>
  BY DEF Update, Fetched, Goto
<1>2. Session(t) # None /\ pc[t] \in Admission
  BY <1>1 DEF IInv, Local, Placed, Admission
<1>3. /\ doc' \in [Tab -> AuthorizationDoc] /\ doc'[Session(t)] = Updated(t)
      /\ \A d \in Tab : Grows(d)
      /\ Stored'
      /\ RequestedType(t)' = RequestedType(t) /\ (RequestedNonce(t) => RequestedNonce(t)')
  BY <1>1, <1>2, WriteGrows
<1>4. /\ Session(t) \in Tab
      /\ new \in AuthorizationDoc
      /\ new.type = doc[Session(t)].type
      /\ new.nonce = (doc[Session(t)].nonce \/ params[t].ask.nonce)
      /\ params[t].prompt # {} => new.prompt = params[t].prompt
  BY <1>2, UpdatedDocument DEF IInv
<1> HIDE DEF new
<1>5. seen \in View
  BY <1>4 DEF View, AuthorizationDoc
<1>6. seen.doc = Session(t) /\ seen.user = new.user /\ seen.nonce = new.nonce
      /\ seen.prompt = new.prompt
  OBVIOUS
<1> HIDE DEF seen
<1>7. TypeOK'
  BY <1>1, <1>3, <1>5 DEF IInv, TypeOK, Serving
<1>8. /\ pc'[t] = "validate" /\ params'[t] = params[t] /\ sent'[t] = sent[t] /\ view'[t] = seen
      /\ doc'[Session(t)] = new
  BY <1>1, <1>3 DEF IInv, TypeOK, new
<1>9. StepOf(t)
  BY <1>1, <1>3, <1>6, <1>8 DEF IInv, TypeOK, StepOf, Unshared, Session
<1>10. Placed(t)'
  BY <1>1, <1>2, <1>6, <1>8 DEF IInv, Local, Placed, Session, Admission, Holding, Page
<1>11. Admitted(t)'
  BY <1>1, <1>2, <1>3, <1>8 DEF IInv, Local, Admitted, Session, Authenticated
<1>12. "id_token" \in ToSet(RequestedType(t)) => new.nonce
  BY <1>2, <1>4 DEF IInv, Local, Admitted, RequestedNonce
<1>13. "id_token" \in ToSet(new.type) => new.nonce
  BY <1>4 DEF IInv, Stored
<1>14. Settled(t)'
  BY <1>2, <1>3, <1>4, <1>6, <1>8, <1>12, <1>13 DEF Settled, Session
<1>15. new.user # None => new.user \in new.users
  BY <1>3, <1>4 DEF Stored, new
<1>16. Bound(t)' /\ Fulfilled(t)'
  BY <1>2, <1>6, <1>8, <1>15 DEF Bound, Fulfilled
<1> QED
  BY <1>3, <1>7, <1>9, <1>10, <1>11, <1>14, <1>16, Assembled DEF Local

LEMMA CookieJars ==
  ASSUME IInv, NEW t \in Tab
  PROVE  /\ [jar EXCEPT !.authorization = None, !.sub = None] \in Cookies
         /\ [jar EXCEPT !.authorization = SessionCookie(t)] \in Cookies
         /\ [authorization |-> SessionCookie(t), sub |-> None, user |-> None] \in Cookies
<1>1. jar \in Cookies /\ view[t].doc \in Tab \cup {None}
  BY DEF IInv, TypeOK, View
<1>2. SessionCookie(t) \in Tab \cup {None}
  BY <1>1 DEF SessionCookie, Cookies
<1> QED
  BY <1>1, <1>2 DEF Cookies

(* Forms are shown with the session's cookie in the jar.                   *)
LEMMA FormStays ==
  ASSUME IInv, NEW t \in Tab, pc[t] = "validate", ToLogin(t) \/ ToConsent(t)
  PROVE  IInv'
<1>1. jar \in Cookies
  BY DEF IInv, TypeOK
<1>2. jar' \in Cookies /\ jar'.authorization = SessionCookie(t)
  <2>1. CASE ToLogin(t)
    <3> DEFINE cookies == [authorization |-> SessionCookie(t), sub |-> None, user |-> None]
    <3>1. cookies \in Cookies
      BY CookieJars
    <3>2. cookies.authorization = SessionCookie(t)
      OBVIOUS
    <3> QED
      BY <2>1, <3>1, <3>2 DEF ToLogin
  <2>2. CASE ToConsent(t)
    <3> DEFINE cookies == [jar EXCEPT !.authorization = SessionCookie(t)]
    <3>1. cookies \in Cookies
      BY CookieJars
    <3>2. cookies.authorization = SessionCookie(t)
      BY <1>1 DEF Cookies
    <3> QED
      BY <2>2, <3>1, <3>2 DEF ToConsent
  <2> QED
    BY <2>1, <2>2
<1>3. \E page \in {"login", "consent", "error", "failed"} : Answer(t, page)
  BY DEF ToLogin, ToConsent
<1>4. UNCHANGED <<doc, consents>> /\ pc[t] \in Deciding
  BY DEF ToLogin, ToConsent, Deciding
<1> QED
  BY <1>2, <1>3, <1>4, AnswerStays

(* The request has seen a user who has consented.                          *)
LEMMA PassStays ==
  ASSUME IInv, NEW t \in Tab, pc[t] = "validate",
         ~NeedsLogin(t), ~NeedsConsent(t), view[t].user # None,
         doc' = [doc EXCEPT ![view[t].doc].consent = TRUE], Goto(t, "issue"),
         UNCHANGED <<jar, consents, params, sent, view>>
  PROVE  IInv'
<1>1. pc' = [pc EXCEPT ![t] = "issue"]
  BY DEF Goto
<1>2. /\ view[t].doc \in Tab
      /\ view[t].doc = IF Session(t) = None THEN t ELSE Session(t)
      /\ doc[view[t].doc].user # None /\ view[t].user \in doc[view[t].doc].users
      /\ doc[view[t].doc].client \in consents[view[t].user]
  BY DEF IInv, TypeOK, View, Local, Placed, Bound, Holding, NeedsConsent
<1>3. doc[view[t].doc] \in AuthorizationDoc
  BY <1>2 DEF IInv, TypeOK
<1> DEFINE new == [doc[view[t].doc] EXCEPT !.consent = TRUE]
<1>4. /\ new \in AuthorizationDoc
      /\ new.type = doc[view[t].doc].type /\ new.client = doc[view[t].doc].client
      /\ new.nonce = doc[view[t].doc].nonce /\ new.user = doc[view[t].doc].user
      /\ new.users = doc[view[t].doc].users
  BY <1>3 DEF AuthorizationDoc
<1>5. doc' = [doc EXCEPT ![view[t].doc] = new]
  OBVIOUS
<1> HIDE DEF new
<1>6. /\ doc' \in [Tab -> AuthorizationDoc] /\ doc'[view[t].doc] = new
      /\ \A d \in Tab \ {view[t].doc} : doc'[d] = doc[d]
  BY <1>2, <1>4, <1>5 DEF IInv, TypeOK
<1>7. \A d \in Tab : Grows(d)
  BY <1>4, <1>6 DEF Grows
<1>8. Stored'
  BY <1>2, <1>4, <1>6 DEF IInv, Stored
<1>9. TypeOK'
  BY <1>1, <1>6 DEF IInv, TypeOK, Serving
<1>10. /\ pc'[t] = "issue" /\ params'[t] = params[t] /\ sent'[t] = sent[t]
       /\ view'[t] = view[t]
  BY <1>1 DEF IInv, TypeOK
<1>11. StepOf(t)
  BY <1>1, <1>7, <1>10 DEF IInv, TypeOK, StepOf, Unshared, Session
<1>12. Placed(t)'
  BY <1>10 DEF IInv, Local, Placed, Session, Admission, Holding, Page
<1>13. Session(t) # None => Session(t) \in Tab
  BY DEF IInv, TypeOK, Cookies, Session
<1>14. RequestedType(t)' = RequestedType(t) /\ (RequestedNonce(t) => RequestedNonce(t)')
  BY <1>7, <1>10, <1>13 DEF RequestedType, RequestedNonce, Session, Grows
<1>15. Admitted(t)'
  BY <1>10, <1>14 DEF IInv, Local, Admitted, Admission, Session, Authenticated
<1>16. params[t].prompt \cap {"login", "consent"} = {}
  BY DEF IInv, Local, Settled, Deciding, NeedsLogin, NeedsConsent
<1>17. Settled(t)'
  BY <1>2, <1>4, <1>6, <1>10, <1>14, <1>16
     DEF IInv, Local, Settled, Deciding, Session, Authenticated
<1>18. Bound(t)' /\ Fulfilled(t)'
  BY <1>2, <1>7, <1>10, NoneAssumption DEF Bound, Fulfilled, Grows
<1> QED
  BY <1>8, <1>9, <1>11, <1>12, <1>15, <1>17, <1>18, Assembled DEF Local

(* The last of what is issued: the answer has an id_token only with a      *)
(* nonce, and what the document of the tab asks for.                       *)
LEMMA OwedType ==
  ASSUME TypeOK, NEW t \in Tab
  PROVE  Owed(t) \in SUBSET {"code", "token", "id_token"}
BY DEF Owed

LEMMA OwedFacts ==
  ASSUME IInv, NEW t \in Tab, pc[t] = "issue"
  PROVE  /\ "id_token" \in Owed(t) => view[t].nonce
         /\ view[t].doc = t => Owed(t) = ToSet(doc[t].type)
<1>1. /\ RequestedType(t) \in Flows
      /\ "id_token" \in ToSet(RequestedType(t)) => view[t].nonce
      /\ "id_token" \in ToSet(doc[view[t].doc].type) => view[t].nonce
  BY DEF IInv, Local, Admitted, Settled, Admission, Deciding
<1>2. view[t].doc = IF Session(t) = None THEN t ELSE Session(t)
  BY DEF IInv, Local, Placed, Holding
<1>3. view[t].doc = t => RequestedType(t) = doc[t].type
  <2>1. CASE Session(t) = None
    BY <1>2, <2>1 DEF IInv, Local, Settled, Deciding
  <2>2. CASE Session(t) # None /\ Session(t) = t
    <3>1. params[t] = NoParams
      BY <2>2 DEF IInv, Local, Placed
    <3> QED
      BY <2>2, <3>1 DEF RequestedType, NoParams
  <2> QED
    BY <1>2, <2>1, <2>2
<1> DEFINE f == RequestedType(t)
<1> DEFINE stored == ToSet(doc[view[t].doc].type)
<1>4. /\ f \in CodeFlow => Owed(t) = {"code"}
      /\ f \in ImplicitFlow => Owed(t) = {"id_token"} \cup (stored \cap {"token"})
      /\ f \in HybridFlow => Owed(t) = {"code"} \cup (stored \cap {"token", "id_token"})
  BY FlowFacts DEF Owed
<1>5. f \in CodeFlow \/ f \in ImplicitFlow \/ f \in HybridFlow
  BY <1>1 DEF Flows
<1> HIDE DEF f
<1>6. "id_token" \in Owed(t) => view[t].nonce
  BY <1>1, <1>4, <1>5, FlowFacts DEF f
<1>7. view[t].doc = t => stored = ToSet(f)
  BY <1>3 DEF f
<1>8. view[t].doc = t => Owed(t) = ToSet(f)
  BY <1>4, <1>5, <1>7, FlowFacts
<1> QED
  BY <1>6, <1>7, <1>8

LEMMA IssueNextStays ==
  ASSUME IInv, NEW t \in Tab, IssueNext(t)
  PROVE  IInv'
<1> DEFINE seen == [view[t] EXCEPT !.got = @ \cup {NextIssued(t)}]
<1>1. /\ pc[t] = "issue" /\ view' = [view EXCEPT ![t] = seen]
      /\ UNCHANGED <<jar, doc, consents, pc, params, sent>>
  BY DEF IssueNext
<1>2. view[t] \in View /\ NextIssued(t) \in {"code", "token", "id_token"}
  BY DEF IInv, TypeOK, NextIssued
<1>3. /\ seen \in View /\ seen.doc = view[t].doc /\ seen.user = view[t].user
      /\ seen.nonce = view[t].nonce /\ seen.prompt = view[t].prompt
  BY <1>2 DEF View
<1> HIDE DEF seen
<1>4. TypeOK'
  BY <1>1, <1>3 DEF IInv, TypeOK
<1>5. view'[t] = seen
  BY <1>1 DEF IInv, TypeOK
<1>6. StepOf(t)
  BY <1>1, <1>3, <1>5, SameDocs DEF IInv, TypeOK, StepOf, Unshared, Session
<1>7. Placed(t)'
  BY <1>1, <1>3, <1>5 DEF IInv, Local, Placed, Session, Holding
<1>8. RequestedType(t)' = RequestedType(t) /\ RequestedNonce(t)' = RequestedNonce(t)
  BY <1>1 DEF RequestedType, RequestedNonce, Session
<1>9. Admitted(t)' /\ Settled(t)' /\ Bound(t)' /\ Fulfilled(t)'
  BY <1>1, <1>3, <1>5, <1>8
     DEF IInv, Local, Admitted, Settled, Bound, Fulfilled, Session, Authenticated
<1>10. Stored'
  BY <1>1 DEF IInv, Stored
<1> QED
  BY <1>4, <1>6, <1>7, <1>9, <1>10, Assembled DEF Local

LEMMA IssueLastStays ==
  ASSUME IInv, NEW t \in Tab, IssueLast(t)
  PROVE  IInv'
<1> DEFINE seen == [NoView EXCEPT !.doc = view[t].doc, !.nonce = view[t].nonce, !.got = Owed(t)]
<1>1. /\ pc[t] = "issue" /\ pc' = [pc EXCEPT ![t] = "answer"]
      /\ params' = [params EXCEPT ![t] = NoParams]
      /\ sent' = [sent EXCEPT ![t] = NoCookies]
      /\ view' = [view EXCEPT ![t] = seen]
      /\ jar' = [jar EXCEPT !.authorization = None, !.sub = None]
      /\ UNCHANGED <<doc, consents>>
  BY DEF IssueLast, Answer, Goto
<1>2. /\ view[t].doc \in Tab /\ view[t].nonce \in BOOLEAN
      /\ Owed(t) \in SUBSET {"code", "token", "id_token"}
  BY <1>1, OwedType DEF IInv, TypeOK, View, Local, Placed, Holding, Session, Cookies
<1>3. /\ seen \in View /\ seen.doc = view[t].doc /\ seen.nonce = view[t].nonce
      /\ seen.got = Owed(t) /\ seen.user = None
  BY <1>2 DEF NoView, View
<1> HIDE DEF seen
<1>4. jar' \in Cookies /\ jar'.authorization = None
  BY <1>1, CookieJars DEF IInv, TypeOK, Cookies
<1>5. NoParams \in Params /\ NoCookies \in Cookies
  BY DEF NoParams, NoCookies, Params, Cookies
<1>6. TypeOK'
  BY <1>1, <1>3, <1>4, <1>5 DEF IInv, TypeOK, Page
<1>7. /\ pc'[t] = "answer" /\ params'[t] = NoParams /\ sent'[t] = NoCookies
      /\ view'[t] = seen
  BY <1>1 DEF IInv, TypeOK
<1>8. StepOf(t)
  BY <1>1, <1>3, <1>4, <1>7, SameDocs
     DEF IInv, TypeOK, StepOf, Unshared, Session, NoParams, NoCookies
<1>9. Placed(t)'
  BY <1>2, <1>3, <1>7, NoneAssumption DEF Placed, Session, NoParams, Admission, Holding
<1>10. Fulfilled(t)'
  BY <1>1, <1>3, <1>7, OwedFacts DEF Fulfilled
<1>11. Admitted(t)' /\ Settled(t)' /\ Bound(t)'
  BY <1>3, <1>7 DEF Admitted, Settled, Bound, Admission, Deciding
<1>12. Stored'
  BY <1>1 DEF IInv, Stored
<1> QED
  BY <1>6, <1>8, <1>9, <1>10, <1>11, <1>12, Assembled DEF Local

-----------------------------------------------------------------------------
(* One step per action.                                                    *)

LEMMA ReportErrorStays ==
  ASSUME IInv, NEW t \in Tab, ReportError(t)
  PROVE  IInv'
<1>1. jar \in Cookies
  BY DEF IInv, TypeOK
<1>2. jar' \in Cookies /\ jar'.authorization = None
  BY <1>1, CookieJars DEF ReportError, Cookies
<1>3. Answer(t, "error") /\ UNCHANGED <<doc, consents>>
  BY DEF ReportError
<1> QED
  BY <1>2, <1>3, AnswerStays

LEMMA FailStays ==
  ASSUME IInv, NEW t \in Tab, Fail(t)
  PROVE  IInv'
<1>1. jar \in Cookies
  BY DEF IInv, TypeOK
<1>2. CASE ReportError(t)
  BY <1>2, ReportErrorStays
<1>3. CASE /\ pc[t] \in {"validate", "issue"}
           /\ jar' = [jar EXCEPT !.authorization = SessionCookie(t)]
           /\ Answer(t, "failed")
           /\ UNCHANGED <<doc, consents>>
  <2>1. jar' \in Cookies /\ jar'.authorization = SessionCookie(t) /\ pc[t] \in Deciding
    BY <1>1, <1>3, CookieJars DEF Cookies, Deciding
  <2> QED
    BY <1>3, <2>1, AnswerStays
<1>4. CASE Answer(t, "failed") /\ UNCHANGED <<jar, doc, consents>>
  BY <1>1, <1>4, AnswerStays
<1> QED
  BY <1>2, <1>3, <1>4 DEF Fail

LEMMA SubmitLoginStays ==
  ASSUME IInv, NEW t \in Tab, NEW user \in User, NEW cookie \in {"user", "sub"},
         SubmitLogin(t, user, cookie)
  PROVE  IInv'
<1>1. jar \in Cookies
  BY DEF IInv, TypeOK
<1>2. PICK cookies \in {[jar EXCEPT !.sub = None, !.user = user], [jar EXCEPT !.sub = user]} :
        jar' = cookies /\ Resume(t, cookies)
  BY DEF SubmitLogin
<1>3. cookies \in Cookies /\ cookies.authorization = jar.authorization
  BY <1>1, <1>2 DEF Cookies
<1>4. pc[t] = "login" /\ UNCHANGED <<doc, consents, view>>
  BY DEF SubmitLogin
<1>5. consents' \in [User -> SUBSET Client] /\ \A u \in User : consents[u] \subseteq consents'[u]
  BY <1>4 DEF IInv, TypeOK
<1> QED
  BY <1>2, <1>3, <1>4, <1>5, ResumeStays

LEMMA RecordConsentStays ==
  ASSUME IInv, NEW t \in Tab, RecordConsent(t)
  PROVE  IInv'
<1>1. jar \in Cookies /\ pc[t] = "consenting" /\ UNCHANGED <<jar, doc>>
  BY DEF IInv, TypeOK, RecordConsent
<1>2. CASE Session(t) = None \/ Authenticated(t) = None
  <2>1. \E page \in {"login", "consent", "error", "failed"} : Answer(t, page)
    BY <1>2 DEF RecordConsent
  <2>2. UNCHANGED <<doc, consents>>
    BY <1>2 DEF RecordConsent
  <2> QED
    BY <1>1, <2>1, <2>2, AnswerStays
<1>3. CASE ~(Session(t) = None \/ Authenticated(t) = None)
  <2> DEFINE user == Authenticated(t)
  <2> DEFINE more == consents[user] \cup {doc[Session(t)].client}
  <2>1. /\ consents' = [consents EXCEPT ![user] = more]
        /\ Resume(t, jar) /\ UNCHANGED view
    BY <1>3 DEF RecordConsent
  <2>2. user \in User /\ Session(t) \in Tab
    BY <1>3 DEF IInv, TypeOK, Cookies, Authenticated, UserOf, Session
  <2>3. doc[Session(t)].client \in Client
    <3>1. doc[Session(t)].client \in Client \cup {None}
      BY <2>2 DEF IInv, TypeOK, AuthorizationDoc
    <3>2. doc[Session(t)].client # None
      BY <2>2 DEF IInv, Known, Session
    <3> QED
      BY <3>1, <3>2
  <2>4. more \in SUBSET Client
    BY <2>2, <2>3 DEF IInv, TypeOK
  <2>5. consents' \in [User -> SUBSET Client] /\ \A u \in User : consents[u] \subseteq consents'[u]
    BY <2>1, <2>2, <2>4 DEF IInv, TypeOK
  <2> QED
    BY <1>1, <2>1, <2>5, ResumeStays
<1> QED
  BY <1>2, <1>3

LEMMA NextIInv == IInv /\ [Next]_vars => IInv'
<1> SUFFICES ASSUME IInv, [Next]_vars PROVE IInv'
  OBVIOUS
<1>1. ASSUME NEW t \in Tab, Endpoint(t) PROVE IInv'
  <2>1. CASE LoadNothing(t)
    <3>1. jar' \in Cookies
      BY <2>1 DEF LoadNothing, IInv, TypeOK
    <3> QED
      BY <2>1, <3>1, AnswerStays DEF LoadNothing
  <2>2. CASE Load(t)
    BY <2>2, LoadStays, ReportErrorStays DEF Load
  <2>3. CASE Create(t) \/ CreateNothing(t)
    BY <2>3, CreateStays, ReportErrorStays DEF CreateNothing
  <2>4. CASE Find(t)
    BY <2>4, FindStays
  <2>5. CASE Update(t) \/ UpdateInHook(t)
    BY <2>5, UpdateStays, UpdateInHookStays
  <2>6. CASE Validate(t)
    BY <2>6, FormStays, PassStays DEF Validate
  <2>7. CASE IssueNext(t) \/ IssueLast(t)
    BY <2>7, IssueNextStays, IssueLastStays
  <2>8. CASE RecordConsent(t)
    BY <2>8, RecordConsentStays
  <2> QED
    BY <1>1, <2>1, <2>2, <2>3, <2>4, <2>5, <2>6, <2>7, <2>8 DEF Endpoint
<1>2. ASSUME NEW t \in Tab, UserActs(t) PROVE IInv'
  BY <1>2, SubmitLoginStays, ConsentFormStays DEF UserActs
<1>3. ASSUME NEW t \in Tab, FailLogin(t) PROVE IInv'
  <2>1. jar' \in Cookies /\ jar'.authorization = jar.authorization
    BY <1>3 DEF FailLogin, IInv, TypeOK, Cookies
  <2> QED
    BY <1>3, <2>1, CookieStays DEF FailLogin
<1>4. ASSUME NEW name \in {"authorization", "sub", "user"}, CookieExpires(name) PROVE IInv'
  <2>1. jar \in Cookies /\ jar' = [jar EXCEPT ![name] = None]
    BY <1>4 DEF CookieExpires, IInv, TypeOK
  <2>2. jar' \in Cookies /\ jar'.authorization \in {None, jar.authorization}
    <3>1. CASE name = "authorization"
      <4>1. jar' = [jar EXCEPT !.authorization = None]
        BY <2>1, <3>1
      <4> QED
        BY <2>1, <4>1 DEF Cookies
    <3>2. CASE name = "sub"
      <4>1. jar' = [jar EXCEPT !.sub = None]
        BY <2>1, <3>2
      <4> QED
        BY <2>1, <4>1 DEF Cookies
    <3>3. CASE name = "user"
      <4>1. jar' = [jar EXCEPT !.user = None]
        BY <2>1, <3>3
      <4> QED
        BY <2>1, <4>1 DEF Cookies
    <3> QED
      BY <3>1, <3>2, <3>3
  <2> QED
    BY <1>4, <2>2, CookieStays DEF CookieExpires
<1>5. CASE UNCHANGED vars
  <2>1. jar' \in Cookies
    BY <1>5 DEF IInv, TypeOK, vars
  <2> QED
    BY <1>5, <2>1, CookieStays DEF vars
<1> QED
  BY <1>1, <1>2, <1>3, <1>4, <1>5, StartFlowStays, FailStays, ConsentFormStays DEF Next

LEMMA Invariance == Spec => []IInv
BY InitIInv, NextIInv, PTL DEF Spec

-----------------------------------------------------------------------------
(* The theorems.                                                           *)

(* Type correctness of cookies, documents and requests.                    *)
THEOREM FlowTyped == Spec => []TypeOK
<1>1. IInv => TypeOK
  BY DEF IInv
<1> QED
  BY <1>1, Invariance, PTL

(* The cookie of a session that was answered is not found again.           *)
THEOREM SpentSessionsAreForgotten == Spec => []SpentSessionIsForgotten
<1>1. IInv => SpentSessionIsForgotten
  BY DEF IInv
<1> QED
  BY <1>1, Invariance, PTL

(* No id_token leaves through the front channel without a nonce, although  *)
(* request and document may come from different tabs.                      *)
THEOREM IdTokensHaveNonces == Spec => []IdTokenHasNonce
<1>1. IInv => IdTokenHasNonce
  BY DEF IInv, Local, Fulfilled, IdTokenHasNonce
<1> QED
  BY <1>1, Invariance, PTL

(* A tab that gets the answer of its own session gets what it asked for.   *)
THEOREM AnswersAreAsRequested == Spec => []AnswerAsRequested
<1>1. IInv => AnswerAsRequested
  BY DEF IInv, Local, Fulfilled, AnswerAsRequested
<1> QED
  BY <1>1, Invariance, PTL

(* A page changes only by a step of its tab.                               *)
LEMMA Mover ==
  ASSUME IInv, Next, NEW t \in Tab, pc'[t] # pc[t]
  PROVE  \/ \E client \in Client, prompt \in Prompts, ask \in Asks :
            \E consent \in Consents : StartFlow(t, client, prompt, ask, consent)
         \/ Endpoint(t) \/ Fail(t) \/ UserActs(t) \/ DenyConsent(t)
<1>1. \A q \in Tab : \A label : Goto(q, label) => q = t
  BY DEF IInv, TypeOK, Goto
<1>2. \A q \in Tab : \A page : Answer(q, page) => q = t
  BY <1>1 DEF Answer
<1>3. PICK q \in Tab :
        \/ \E client \in Client, prompt \in Prompts, ask \in Asks :
           \E consent \in Consents : StartFlow(q, client, prompt, ask, consent)
        \/ Endpoint(q) \/ Fail(q)
        \/ UserActs(q) \/ FailLogin(q) \/ DenyConsent(q)
  BY DEF Next, CookieExpires
<1>4. ASSUME NEW client \in Client, NEW prompt \in Prompts, NEW ask \in Asks,
             NEW consent \in Consents, StartFlow(q, client, prompt, ask, consent)
      PROVE  q = t
  BY <1>1, <1>4 DEF StartFlow, Send
<1>5. Fail(q) \/ CreateNothing(q) \/ LoadNothing(q) \/ Load(q) => q = t
  BY <1>1, <1>2 DEF Fail, CreateNothing, LoadNothing, Load, ReportError
<1>6. Create(q) \/ Find(q) \/ Update(q) \/ UpdateInHook(q) => q = t
  BY <1>1 DEF Create, Find, Update, UpdateInHook
<1>7. Validate(q) \/ IssueLast(q) \/ RecordConsent(q) => q = t
  BY <1>1, <1>2 DEF Validate, ToLogin, ToConsent, IssueLast, RecordConsent, Resume, Send
<1>8. UserActs(q) \/ DenyConsent(q) => q = t
  BY <1>1 DEF UserActs, SubmitLogin, SubmitConsent, DenyConsent, Resume, Send
<1>9. ~IssueNext(q) /\ ~FailLogin(q)
  BY DEF IssueNext, FailLogin
<1> QED
  BY <1>3, <1>4, <1>5, <1>6, <1>7, <1>8, <1>9 DEF Endpoint

LEMMA MovedTo ==
  ASSUME IInv, NEW t \in Tab
  PROVE  /\ \A label : Goto(t, label) => pc'[t] = label
         /\ \A page : Answer(t, page) => pc'[t] = page
         /\ ReportError(t) => pc'[t] = "error"
BY DEF IInv, TypeOK, Goto, Answer, ReportError

(* A tab comes to a form only from the checks of validate(), and to the    *)
(* client only with everything issued.                                     *)
LEMMA Turns ==
  ASSUME IInv, Next, NEW t \in Tab, pc'[t] # pc[t], pc'[t] \in {"answer", "login", "consent"}
  PROVE  \/ pc'[t] = "answer" /\ pc[t] = "issue"
         \/ pc'[t] # "answer" /\ Validate(t)
<1>1. ASSUME NEW client \in Client, NEW prompt \in Prompts, NEW ask \in Asks,
             NEW consent \in Consents
      PROVE  ~StartFlow(t, client, prompt, ask, consent)
  BY MovedTo DEF StartFlow, Send
<1>2. ~(Fail(t) \/ LoadNothing(t) \/ Load(t) \/ CreateNothing(t))
  BY MovedTo DEF Fail, LoadNothing, Load, CreateNothing
<1>3. ~(UserActs(t) \/ DenyConsent(t))
  BY MovedTo DEF UserActs, SubmitLogin, SubmitConsent, DenyConsent, Resume, Send
<1>4. ~(Create(t) \/ Find(t) \/ Update(t) \/ UpdateInHook(t) \/ IssueNext(t))
  BY MovedTo DEF Create, Find, AfterFind, Update, UpdateInHook, IssueNext
<1>5. ~RecordConsent(t)
  BY MovedTo DEF RecordConsent, Resume, Send
<1>6. IssueLast(t) => pc'[t] = "answer" /\ pc[t] = "issue"
  BY MovedTo DEF IssueLast
<1>7. Validate(t) => pc'[t] # "answer"
  BY MovedTo DEF Validate, ToLogin, ToConsent
<1> QED
  BY <1>1, <1>2, <1>3, <1>4, <1>5, <1>6, <1>7, Mover DEF Endpoint

(* A silent request that starts a session is never answered with a page:   *)
(* what validatePrompt() has seen still holds when validate() looks again. *)
THEOREM SilentRequestsStaySilent == Spec => SilentStaysSilent
<1>1. ASSUME IInv, Next, NEW t \in Tab, params[t].prompt = {"none"}, Session(t) = None,
             pc[t] \in Serving, pc'[t] \in {"login", "consent"}
      PROVE  FALSE
  <2>1. Validate(t)
    BY <1>1, Turns DEF Serving, Initialising
  <2>2. pc[t] = "validate"
    BY <2>1 DEF Validate
  <2>3. /\ view[t].prompt = {"none"} /\ view[t].user = Authenticated(t)
        /\ doc[view[t].doc].client = params[t].client
    BY <1>1, <2>2 DEF IInv, Local, Settled, Deciding
  <2>4. Authenticated(t) # None /\ params[t].client \in consents[Authenticated(t)]
    BY <1>1, <2>2 DEF IInv, Local, Admitted, Admission
  <2>5. ~NeedsLogin(t) /\ ~NeedsConsent(t)
    BY <2>3, <2>4 DEF NeedsLogin, NeedsConsent
  <2>6. Goto(t, "issue")
    BY <2>1, <2>3, <2>4, <2>5 DEF Validate
  <2> QED
    BY <1>1, <2>6 DEF IInv, TypeOK, Goto
<1>2. IInv /\ [Next]_vars =>
        [\A t \in Tab :
           params[t].prompt = {"none"} /\ Session(t) = None
             => ~(pc[t] \in Serving /\ pc'[t] \in {"login", "consent"})]_vars
  BY <1>1
<1> QED
  BY <1>2, Invariance, PTL DEF Spec, SilentStaysSilent

(* A request with prompt=login or prompt=consent gets that form, unless it *)
(* is not acceptable or a call fails: what it asks for is what validate()  *)
(* looks at, whatever the document it finds had stored.                    *)
THEOREM RequestedFormsAreShown == Spec => RequestedFormIsShown
<1>1. ASSUME IInv, Next, NEW t \in Tab, params[t].prompt \cap {"login", "consent"} # {},
             pc[t] \in Serving, pc'[t] \in Page
      PROVE  \/ pc'[t] = RequestedForm(t)
             \/ Fail(t) \/ CreateNothing(t)
             \/ pc[t] = "load" /\ ~Acceptable(t)
  <2>1. /\ params[t] # NoParams /\ params[t].client # None /\ pc[t] # "consenting"
        /\ pc[t] # "issue"
    BY <1>1 DEF IInv, Local, Placed, Settled, Deciding, NoParams
  <2>2. pc'[t] # pc[t] /\ pc[t] \notin {"blank", "login", "consent"}
    BY <1>1 DEF Serving, Initialising, Page
  <2>3. ASSUME NEW client \in Client, NEW prompt \in Prompts, NEW ask \in Asks,
               NEW consent \in Consents
        PROVE  ~StartFlow(t, client, prompt, ask, consent)
    BY <2>2 DEF StartFlow
  <2>4. ~(UserActs(t) \/ DenyConsent(t))
    BY <2>2 DEF UserActs, SubmitLogin, SubmitConsent, DenyConsent
  <2>5. ~(LoadNothing(t) \/ IssueNext(t) \/ IssueLast(t) \/ RecordConsent(t))
    BY <2>1 DEF LoadNothing, IssueNext, IssueLast, RecordConsent
  <2>6. ~(Create(t) \/ Find(t) \/ Update(t) \/ UpdateInHook(t))
    BY <1>1, MovedTo DEF Create, Find, AfterFind, Update, UpdateInHook, Page
  <2>7. Load(t) => pc[t] = "load" /\ ~Acceptable(t)
    BY <1>1, MovedTo DEF Load, Page
  <2>8. ASSUME Validate(t) PROVE pc'[t] = RequestedForm(t)
    <3>1. view[t].prompt = params[t].prompt
      BY <1>1, <2>8 DEF IInv, Local, Settled, Deciding, Validate
    <3>2. "login" \in params[t].prompt <=> NeedsLogin(t)
      BY <3>1 DEF NeedsLogin
    <3>3. "login" \notin params[t].prompt => NeedsConsent(t)
      BY <1>1, <3>1 DEF NeedsConsent
    <3>4. ~Goto(t, "issue")
      BY <1>1, MovedTo DEF Page
    <3>5. CASE ToLogin(t) /\ (NeedsLogin(t) \/ ~NeedsConsent(t))
      BY <1>1, <3>2, <3>3, <3>5, MovedTo DEF ToLogin, RequestedForm
    <3>6. CASE ~NeedsLogin(t) /\ ToConsent(t)
      BY <1>1, <3>2, <3>6, MovedTo DEF ToConsent, RequestedForm
    <3> QED
      BY <2>8, <3>4, <3>5, <3>6 DEF Validate
  <2> QED
    BY <1>1, <2>2, <2>3, <2>4, <2>5, <2>6, <2>7, <2>8, Mover DEF Endpoint
<1>2. IInv /\ [Next]_vars =>
        [\A t \in Tab :
           /\ params[t].prompt \cap {"login", "consent"} # {}
           /\ pc[t] \in Serving /\ pc'[t] \in Page
           => \/ pc'[t] = RequestedForm(t)
              \/ Fail(t) \/ CreateNothing(t)
              \/ pc[t] = "load" /\ ~Acceptable(t)]_vars
  BY <1>1
<1> QED
  BY <1>2, Invariance, PTL DEF Spec, RequestedFormIsShown

-----------------------------------------------------------------------------
(* The refinement of AuthorizationPromise: what is seen of the state, and  *)
(* of each step.                                                           *)
Clients == [t \in Tab |-> doc[t].client]
Users == [t \in Tab |-> doc[t].users]
Answered == [t \in Tab |-> IF pc[t] = "answer" THEN view[t].doc ELSE None]

Seen == [Promised!Next]_(Promised!vars)

LEMMA InitSeen == Init => Promised!Init
BY DEF Init, Promised!Init, NoDoc

(* A step of a tab that is not answered by it.                             *)
StaysUnanswered(t) ==
  /\ pc[t] # "answer" /\ pc'[t] # "answer"
  /\ \A q \in Tab \ {t} : pc'[q] = pc[q] /\ view'[q] = view[q]

LEMMA SameAnswers ==
  ASSUME NEW t \in Tab, StaysUnanswered(t)
  PROVE  Answered' = Answered
BY DEF StaysUnanswered, Answered

(* Cookies, pages, prompts and parameters are not seen.                    *)
LEMMA Unseen ==
  ASSUME UNCHANGED <<doc, consents>>, Answered' = Answered
  PROVE  Seen
BY DEF Seen, Promised!vars, Answered

LEMMA PageUnseen ==
  ASSUME IInv, NEW t \in Tab, pc[t] # "answer", NEW page \in Page \ {"answer"}, Answer(t, page),
         UNCHANGED <<doc, consents>>
  PROVE  Seen
<1>1. pc' = [pc EXCEPT ![t] = page] /\ \A q \in Tab \ {t} : view'[q] = view[q]
  BY DEF Answer, Goto, IInv, TypeOK
<1>2. StaysUnanswered(t)
  BY <1>1 DEF StaysUnanswered, IInv, TypeOK
<1> QED
  BY <1>2, SameAnswers, Unseen

LEMMA MoveUnseen ==
  ASSUME IInv, NEW t \in Tab, pc[t] # "answer",
         NEW label \in (Page \cup Serving) \ {"answer"}, Goto(t, label),
         \A q \in Tab \ {t} : view'[q] = view[q], UNCHANGED <<doc, consents>>
  PROVE  Seen
<1>1. StaysUnanswered(t)
  BY DEF Goto, StaysUnanswered, IInv, TypeOK
<1> QED
  BY <1>1, SameAnswers, Unseen

LEMMA BrowserUnseen ==
  ASSUME IInv, NEW t \in Tab,
         \/ \E client \in Client, prompt \in Prompts, ask \in Asks :
            \E consent \in Consents : StartFlow(t, client, prompt, ask, consent)
         \/ UserActs(t) \/ FailLogin(t) \/ DenyConsent(t)
  PROVE  Seen
<1>1. ASSUME NEW client \in Client, NEW prompt \in Prompts, NEW ask \in Asks,
             NEW consent \in Consents, StartFlow(t, client, prompt, ask, consent)
      PROVE  Seen
  BY <1>1, MoveUnseen DEF StartFlow, Send, Serving, Initialising
<1>2. ASSUME NEW user \in User, NEW cookie \in {"user", "sub"}, SubmitLogin(t, user, cookie)
      PROVE  Seen
  BY <1>2, MoveUnseen DEF SubmitLogin, Resume, Send, Serving, Initialising
<1>3. CASE SubmitConsent(t)
  BY <1>3, MoveUnseen DEF SubmitConsent, Serving
<1>4. CASE DenyConsent(t)
  BY <1>4, MoveUnseen DEF DenyConsent, Page
<1>5. CASE FailLogin(t)
  BY <1>5, Unseen DEF FailLogin, Answered
<1> QED
  BY <1>1, <1>2, <1>3, <1>4, <1>5 DEF UserActs

LEMMA FailUnseen ==
  ASSUME IInv, NEW t \in Tab, Fail(t)
  PROVE  Seen
<1>1. pc[t] # "answer" /\ UNCHANGED <<doc, consents>>
  BY DEF Fail, ReportError, Initialising
<1>2. \E page \in Page \ {"answer"} : Answer(t, page)
  BY DEF Fail, ReportError, Page
<1> QED
  BY <1>1, <1>2, PageUnseen

LEMMA LoadUnseen ==
  ASSUME IInv, NEW t \in Tab, LoadNothing(t) \/ Load(t) \/ CreateNothing(t) \/ Find(t)
  PROVE  Seen
<1>1. CASE LoadNothing(t)
  BY <1>1, PageUnseen DEF LoadNothing, Page
<1>2. CASE Load(t) /\ Acceptable(t)
  BY <1>2, MoveUnseen DEF Load, Serving, Initialising
<1>3. CASE Load(t) /\ ~Acceptable(t)
  BY <1>3, PageUnseen DEF Load, ReportError, Page
<1>4. CASE Find(t)
  <2>1. PICK label \in AfterFind(t, Session(t)) : Goto(t, label)
    BY <1>4 DEF Find
  <2>2. label \in (Page \cup Serving) \ {"answer"}
    BY <2>1 DEF AfterFind, Serving, Initialising
  <2> QED
    BY <1>4, <2>1, <2>2, MoveUnseen DEF Find, Fetched, IInv, TypeOK
<1>5. CASE CreateNothing(t)
  BY <1>5, PageUnseen DEF CreateNothing, ReportError, Page
<1> QED
  BY <1>1, <1>2, <1>3, <1>4, <1>5

(* A document is created: a flow starts.                                   *)
LEMMA CreateSeen ==
  ASSUME IInv, NEW t \in Tab, Create(t)
  PROVE  Seen
<1>1. params[t].client \in Client /\ Authenticated(t) \in User \cup {None}
  BY DEF Create, IInv, TypeOK, Params, Cookies, Authenticated, UserOf, Local, Placed, Admission
<1>2. PICK c \in Client : c = params[t].client
  BY <1>1
<1>3. PICK bound \in {{}} \cup {{u} : u \in User} : bound = {Authenticated(t)} \ {None}
  BY <1>1
<1> DEFINE new == [client |-> params[t].client, user |-> Authenticated(t),
                   users |-> {Authenticated(t)} \ {None}, prompt |-> params[t].prompt,
                   consent |-> params[t].consent = "true", type |-> params[t].ask.type,
                   nonce |-> params[t].ask.nonce]
<1>4. /\ pc[t] = "create" /\ pc' = [pc EXCEPT ![t] = "validate"]
      /\ doc' = [doc EXCEPT ![t] = new] /\ consents' = consents
      /\ \A q \in Tab \ {t} : view'[q] = view[q]
  BY DEF Create, Fetched, Goto, IInv, TypeOK
<1>5. doc[t].client = None
  BY <1>4 DEF IInv, Local, Placed
<1>6. new.client = c /\ new.users = bound
  BY <1>2, <1>3
<1> HIDE DEF new
<1>7. Answered' = Answered
  BY <1>4, SameAnswers DEF StaysUnanswered, IInv, TypeOK
<1>8. /\ Clients' = [Clients EXCEPT ![t] = c]
      /\ Users' = [Users EXCEPT ![t] = bound]
  BY <1>4, <1>6 DEF Clients, Users, IInv, TypeOK
<1>9. Promised!Start(t, c, bound)
  BY <1>4, <1>5, <1>7, <1>8 DEF Promised!Start, Clients, Users, Answered
<1> QED
  BY <1>9 DEF Seen, Promised!Next

(* An update may bind the document to a user.                              *)
LEMMA UpdateSeen ==
  ASSUME IInv, NEW t \in Tab, UpdateInHook(t) \/ Update(t)
  PROVE  Seen
<1>1. PICK d \in Tab : d = Session(t)
  <2>1. pc[t] \in {"update", "rewrite"}
    BY DEF UpdateInHook, Update
  <2>2. Session(t) # None
    BY <2>1 DEF IInv, Local, Placed
  <2>3. sent[t].authorization \in Tab \cup {None}
    BY DEF IInv, TypeOK, Cookies
  <2> QED
    BY <2>2, <2>3 DEF Session
<1>2. /\ pc[t] \in {"update", "rewrite"} /\ pc'[t] \in {"rewrite", "validate"}
      /\ doc' = [doc EXCEPT ![d] = Updated(t)] /\ consents' = consents
      /\ \A q \in Tab \ {t} : pc'[q] = pc[q] /\ view'[q] = view[q]
  BY <1>1 DEF UpdateInHook, Update, Fetched, Goto, IInv, TypeOK
<1>3. doc[d].client # None
  BY <1>1 DEF IInv, Known, Session
<1>4. Answered' = Answered
  BY <1>2, SameAnswers DEF StaysUnanswered
<1>5. /\ Updated(t).client = doc[d].client
      /\ \/ Updated(t).users = doc[d].users
         \/ /\ Authenticated(t) # None
            /\ Updated(t).users = doc[d].users \cup {Authenticated(t)}
  <2>1. doc[d] \in AuthorizationDoc
    BY DEF IInv, TypeOK
  <2> QED
    BY <1>1, <2>1 DEF Updated, AuthorizationDoc
<1>6. Clients' = Clients
  BY <1>2, <1>5 DEF Clients, IInv, TypeOK
<1>7. CASE Updated(t).users = doc[d].users
  <2>1. Users' = Users
    BY <1>2, <1>7 DEF Users, IInv, TypeOK
  <2> QED
    BY <1>2, <1>4, <1>6, <2>1 DEF Seen, Promised!vars, Clients, Users, Answered
<1>8. CASE Authenticated(t) # None /\ Updated(t).users = doc[d].users \cup {Authenticated(t)}
  <2>1. PICK u \in User : u = Authenticated(t)
    BY <1>8 DEF IInv, TypeOK, Cookies, Authenticated, UserOf
  <2>2. Users' = [Users EXCEPT ![d] = @ \cup {u}]
    BY <1>2, <1>8, <2>1 DEF Users, IInv, TypeOK
  <2>3. Promised!Bind(d, u)
    BY <1>2, <1>3, <1>4, <1>6, <2>2
       DEF Promised!Bind, Clients, Users, Answered
  <2> QED
    BY <2>3 DEF Seen, Promised!Next
<1> QED
  BY <1>5, <1>7, <1>8

(* The consent that validate() stores is not seen.                         *)
LEMMA ValidateSeen ==
  ASSUME IInv, NEW t \in Tab, Validate(t)
  PROVE  Seen
<1>1. pc[t] = "validate"
  BY DEF Validate
<1>2. CASE ToLogin(t) \/ ToConsent(t)
  BY <1>1, <1>2, PageUnseen DEF ToLogin, ToConsent, Page
<1>3. CASE /\ ~NeedsConsent(t) /\ view[t].user # None
           /\ doc' = [doc EXCEPT ![view[t].doc].consent = TRUE]
           /\ Goto(t, "issue")
           /\ UNCHANGED <<jar, consents, params, sent, view>>
  <2>1. view[t].doc \in Tab
    BY <1>1, <1>3 DEF IInv, TypeOK, View, Local, Bound
  <2>2. PICK d \in Tab : d = view[t].doc
    BY <2>1
  <2>3. /\ doc'[d].client = doc[d].client /\ doc'[d].users = doc[d].users
        /\ \A q \in Tab \ {d} : doc'[q] = doc[q]
    BY <1>3, <2>2 DEF IInv, TypeOK, AuthorizationDoc
  <2>4. Clients' = Clients /\ Users' = Users
    BY <2>3 DEF Clients, Users
  <2>5. Answered' = Answered
    BY <1>1, <1>3, SameAnswers DEF StaysUnanswered, Goto, IInv, TypeOK
  <2> QED
    BY <1>3, <2>4, <2>5 DEF Seen, Promised!vars, Clients, Users, Answered
<1> QED
  BY <1>2, <1>3 DEF Validate

(* The client is answered when the last of what is owed is issued.         *)
LEMMA IssueSeen ==
  ASSUME IInv, NEW t \in Tab, IssueNext(t) \/ IssueLast(t)
  PROVE  Seen
<1>1. pc[t] = "issue"
  BY DEF IssueNext, IssueLast
<1>2. CASE IssueNext(t)
  <2>1. StaysUnanswered(t)
    BY <1>1, <1>2 DEF IssueNext, StaysUnanswered, IInv, TypeOK
  <2> QED
    BY <1>2, <2>1, SameAnswers, Unseen DEF IssueNext
<1>3. CASE IssueLast(t)
  <2>1. /\ view[t].doc \in Tab /\ view[t].user \in doc[view[t].doc].users
        /\ doc[view[t].doc].client \in consents[view[t].user]
    BY <1>1 DEF IInv, TypeOK, View, Local, Bound, Settled, Deciding
  <2> PICK d \in Tab : d = view[t].doc
    BY <2>1
  <2>2. /\ pc' = [pc EXCEPT ![t] = "answer"] /\ view'[t].doc = d
        /\ \A q \in Tab \ {t} : view'[q] = view[q]
        /\ UNCHANGED <<doc, consents>>
    BY <1>3 DEF IssueLast, Answer, Goto, NoView, IInv, TypeOK
  <2>3. Answered' = [Answered EXCEPT ![t] = d] /\ Answered[t] = None
    BY <1>1, <2>2 DEF Answered, IInv, TypeOK
  <2>4. Promised!Answer(t, d)
    BY <2>1, <2>2, <2>3 DEF Promised!Answer, Answered
  <2> QED
    BY <2>4 DEF Seen, Promised!Next
<1> QED
  BY <1>2, <1>3

LEMMA ConsentSeen ==
  ASSUME IInv, NEW t \in Tab, RecordConsent(t)
  PROVE  Seen
<1>1. pc[t] = "consenting" /\ doc' = doc
  BY DEF RecordConsent
<1>2. CASE Session(t) = None \/ Authenticated(t) = None
  BY <1>1, <1>2, PageUnseen DEF RecordConsent, Page
<1>3. CASE ~(Session(t) = None \/ Authenticated(t) = None)
  <2>1. PICK d \in Tab, u \in User : d = Session(t) /\ u = Authenticated(t)
    BY <1>3 DEF IInv, TypeOK, Cookies, Authenticated, UserOf, Session
  <2>2. doc[d].client # None
    BY <2>1 DEF IInv, Known, Session
  <2>3. /\ consents' = [consents EXCEPT ![u] = @ \cup {doc[d].client}]
        /\ pc' = [pc EXCEPT ![t] = "load"] /\ view' = view
    BY <1>3, <2>1 DEF RecordConsent, Resume, Send, Goto
  <2>4. Answered' = Answered
    BY <1>1, <2>3, SameAnswers DEF StaysUnanswered, IInv, TypeOK
  <2>5. Promised!Agree(d, u)
    BY <1>1, <2>2, <2>3, <2>4 DEF Promised!Agree, Answered
  <2> QED
    BY <2>5 DEF Seen, Promised!Next
<1> QED
  BY <1>2, <1>3

LEMMA StepSeen == IInv /\ [Next]_vars => Seen
<1> SUFFICES ASSUME IInv, [Next]_vars PROVE Seen
  OBVIOUS
<1>1. ASSUME NEW t \in Tab, Endpoint(t) PROVE Seen
  BY <1>1, LoadUnseen, CreateSeen, UpdateSeen, ValidateSeen, IssueSeen, ConsentSeen
     DEF Endpoint
<1>2. ASSUME NEW name \in {"authorization", "sub", "user"}, CookieExpires(name) PROVE Seen
  BY <1>2, Unseen DEF CookieExpires, Answered
<1>3. CASE UNCHANGED vars
  BY <1>3, Unseen DEF vars, Answered
<1> QED
  BY <1>1, <1>2, <1>3, BrowserUnseen, FailUnseen DEF Next

(* AuthorizationFlow keeps what AuthorizationPromise promises, for any     *)
(* number of tabs, users and clients: a client is answered only for a flow *)
(* one of whose users has consented to its client, and a flow never        *)
(* changes its client nor loses a user or a consent.                       *)
THEOREM FlowsKeepTheirPromise == Spec => FlowPromise
<1>1. IInv /\ [Next]_vars => [Promised!Next]_(Promised!vars)
  BY StepSeen DEF Seen
<1> QED
  BY <1>1, Invariance, InitSeen, PTL DEF Spec, FlowPromise, Promised!Spec

=============================================================================
