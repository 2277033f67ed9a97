------------------------------- MODULE Server -------------------------------
(***************************************************************************)
(* How the requests of one process share its only database connection      *)
(* (database/lib/connect.ts), and how each of them comes to the end of its *)
(* response.                                                               *)
(*                                                                         *)
(* A handler appears as the sequence of its calls that concern the         *)
(* connection: every section of code connects, queries and disconnects     *)
(* what all requests of the process use.  mongoose is external: its        *)
(* readyState, its buffering of queries and its close() are modelled from  *)
(* how the code uses them.                                                 *)
(*                                                                         *)
(* A definition marked `Fault` is no part of the specification: it is the  *)
(* definition below it with a mistake that a property has to notice.       *)
(***************************************************************************)
EXTENDS Naturals, Sequences, FiniteSets

CONSTANTS
  Request,     \* HTTP requests, each made once
  Endpoints,   \* the endpoints they are made to
  MaxFailures, \* bound on database calls that fail, refused connections too
  None         \* null, undefined

VARIABLES
  conn,      \* mongoose.connection.readyState
  late,      \* does a close nobody awaits wait for the connection to open?
  failures,  \* database calls that have failed so far
  pc,        \* whether each request runs, or how its response was ended
  endpoint,  \* where each request was made to
  stage,     \* the stages of its handler that it has entered
  todo,      \* the calls a request has before it in its stage
  cleanup,   \* the finally blocks around it, innermost first
  waits,     \* the event a request waits for
  cause,     \* why the handler of a request threw
  met        \* the requests that ran while a request did

vars == <<conn, late, failures, pc, endpoint, stage, todo, cleanup, waits, cause, met>>

-----------------------------------------------------------------------------
(* Handlers.  A call is                                                    *)
(*   connect   await connection()                                          *)
(*   query     await of a query, or of several                             *)
(*   check     code that may throw because of what it has read             *)
(*   close     await disconnect()                                          *)
(*   release   disconnect(), not awaited                                   *)
(*   try, try_release                                                      *)
(*             a try block whose finally does a close, a release           *)
(*   end       its end, where the finally block runs                       *)

Call == {"connect", "query", "check", "close", "release", "try", "try_release", "end"}

(* Fault: the code disconnects only when nothing is thrown.                *)
SectionWithoutFinally(body) == <<"connect">> \o body \o <<"close">>

Section(body) == <<"try", "connect">> \o body \o <<"end">>

(* Fault: disconnect() is not awaited.                                     *)
KeyDocumentInHaste == <<"connect", "query", "release">>

(* fetchKeys and saveKeys have no finally block.                           *)
KeyDocument == <<"connect", "query", "close">>

(* getKeys: cached, loaded, or created and saved.                          *)
GetKeys == {<<>>, KeyDocument, KeyDocument \o KeyDocument}

(* fetchUserData: scope openid alone has no claims to fetch.               *)
FetchUserData == {<<>>, Section(<<"query", "check">>)}

(* One piece of code after another.                                        *)
Then(g, h) == {p \o q : p \in g, q \in h}

Sign == Then(GetKeys, FetchUserData)

ValidateGrant == {Section(<<"query", "check">>), Section(<<"query", "check", "query">>)}

GrantTokens ==
  {<<"try", "connect", "query", "check", "query">> \o sign \o <<"end">> : sign \in Sign}

ValidateToken ==
  {Section(<<"query">>) \o <<"check">> \o Section(<<"query", "query">>) \o <<"check">>}

(* Nothing is removed when the token is not found.                         *)
Revoke == {<<>>, Section(<<"query", "query">>)}

GetClaims ==
  {<<"try_release", "connect", "query", "close", "check">> \o claims \o <<"end">> :
     claims \in FetchUserData}

ValidatePrompt == {<<"check">>, Section(<<"query", "check">>)}

(* A first request has no document to read and creates one; a later one    *)
(* reads its document twice and may update it.                             *)
Begin ==
  Then(Then({Section(<<>>)}, ValidatePrompt), {Section(<<"query", "check">>)})
    \cup Then(Then({Section(<<"query", "check">>)}, ValidatePrompt),
              {Section(<<"query", "check">>), Section(<<"query", "check", "query">>)})

Validate == {<<"check">> \o Section(<<"query", "check", "query">>)}

(* A code, or an id_token with or without an access token, or a code with  *)
(* both, either or none.  The keys are in memory since cookies were read.  *)
Issue ==
  LET code  == {Section(<<"query">>)}
      token == {<<>>, Section(<<"query">>)}
  IN code \cup Then(token, FetchUserData)
       \cup Then(code, Then(token, {<<>>} \cup FetchUserData))

Login == {<<"check", "connect", "query", "close", "check">>}

RecordConsent == {Section(<<"query", "check", "query", "check">>)}

(* The stages of each handler, each with the calls it may consist of.      *)
Handler == [
  token         |-> <<ValidateGrant, GrantTokens>>,
  revocation    |-> <<ValidateToken, Revoke>>,
  introspection |-> <<ValidateToken>>,
  userinfo      |-> <<GetClaims>>,
  authorization |-> <<GetKeys, Begin, Validate, Issue>>,
  login         |-> <<GetKeys, Login>>,
  consent       |-> <<GetKeys, RecordConsent>>,
  jwks          |-> <<GetKeys>>]

(* The endpoints that check the method before their try block.             *)
Unguarded == {"token", "revocation", "introspection"}

ASSUME EndpointAssumption == Endpoints \subseteq DOMAIN Handler
ASSUME BoundAssumption == MaxFailures \in Nat
ASSUME NoneAssumption ==
  None \notin {"connect", "open", "close", "check", "database", "connection"}

Ended == {"ok", "error", "wrong_method"}

TypeOK ==
  /\ conn \in {"disconnected", "connecting", "connected", "disconnecting"}
  /\ late \in BOOLEAN
  /\ failures \in 0..MaxFailures
  /\ pc \in [Request -> {"idle", "running", "unhandled"} \cup Ended]
  /\ endpoint \in [Request -> Endpoints \cup {None}]
  /\ stage \in [Request -> Nat]
  /\ todo \in [Request -> Seq(Call)]
  /\ cleanup \in [Request -> Seq({"close", "release"})]
  /\ waits \in [Request -> {None, "connect", "open", "close"}]
  /\ cause \in [Request -> {None, "check", "database", "connection"}]
  /\ met \in [Request -> SUBSET Request]

Init ==
  /\ conn = "disconnected" /\ late = FALSE /\ failures = 0
  /\ pc = [r \in Request |-> "idle"]
  /\ endpoint = [r \in Request |-> None]
  /\ stage = [r \in Request |-> 0]
  /\ todo = [r \in Request |-> <<>>]
  /\ cleanup = [r \in Request |-> <<>>]
  /\ waits = [r \in Request |-> None]
  /\ cause = [r \in Request |-> None]
  /\ met = [r \in Request |-> {}]

-----------------------------------------------------------------------------
(* Steps of a handler.                                                     *)

(* Every handler begins with reading the request, which may throw.         *)
Arrive(r, e) ==
  LET running == {q \in Request : pc[q] = "running"} IN
  /\ pc[r] = "idle"
  /\ endpoint' = [endpoint EXCEPT ![r] = e]
  /\ pc' = [pc EXCEPT ![r] = "running"]
  /\ todo' = [todo EXCEPT ![r] = <<"check">>]
  /\ met' = [q \in Request |-> IF q = r THEN running
                               ELSE IF q \in running THEN met[q] \cup {r} ELSE met[q]]
  /\ UNCHANGED <<conn, late, failures, stage, cleanup, waits, cause>>

(* methods() throws; only inside of the try block errorHandler answers 405 *)
ArriveWithWrongMethod(r, e) ==
  /\ pc[r] = "idle"
  /\ endpoint' = [endpoint EXCEPT ![r] = e]
  /\ pc' = [pc EXCEPT ![r] = IF e \in Unguarded THEN "unhandled" ELSE "wrong_method"]
  /\ UNCHANGED <<conn, late, failures, stage, todo, cleanup, waits, cause, met>>

(* The next call of r, which is not waiting for an event.                  *)
At(r, call) ==
  /\ pc[r] = "running" /\ waits[r] = None
  /\ todo[r] # <<>> /\ Head(todo[r]) = call

Go(r) == todo' = [todo EXCEPT ![r] = Tail(@)]

Wait(r, event) == waits' = [waits EXCEPT ![r] = event]

(* Fault: the finally blocks do not run one after the other.               *)
ThrowAtOnce(r, why) ==
  /\ todo' = [todo EXCEPT ![r] = <<cleanup[r]>>]
  /\ cleanup' = [cleanup EXCEPT ![r] = <<>>]
  /\ cause' = [cause EXCEPT ![r] = why]

(* An exception leaves the code to the finally blocks around it.           *)
Throw(r, why) ==
  /\ todo' = [todo EXCEPT ![r] = cleanup[r]]
  /\ cleanup' = [cleanup EXCEPT ![r] = <<>>]
  /\ cause' = [cause EXCEPT ![r] = why]

Try(r) ==
  /\ \/ At(r, "try") /\ cleanup' = [cleanup EXCEPT ![r] = <<"close">> \o @]
     \/ At(r, "try_release") /\ cleanup' = [cleanup EXCEPT ![r] = <<"release">> \o @]
  /\ Go(r)
  /\ UNCHANGED <<conn, late, failures, pc, endpoint, stage, waits, cause, met>>

End(r) ==
  /\ At(r, "end")
  /\ todo' = [todo EXCEPT ![r] = <<Head(cleanup[r])>> \o Tail(@)]
  /\ cleanup' = [cleanup EXCEPT ![r] = Tail(@)]
  /\ UNCHANGED <<conn, late, failures, pc, endpoint, stage, waits, cause, met>>

Check(r) ==
  /\ At(r, "check")
  /\ \/ Go(r) /\ UNCHANGED <<cleanup, cause>>
     \/ Throw(r, "check")
  /\ UNCHANGED <<conn, late, failures, pc, endpoint, stage, waits, met>>

(* Only the request that finds the connection closed opens it and waits;   *)
(* every other one goes on at once, be it opening, open or closing.        *)
Connect(r) ==
  /\ At(r, "connect")
  /\ Go(r)
  /\ IF conn = "disconnected"
       THEN conn' = "connecting" /\ Wait(r, "connect")
       ELSE UNCHANGED <<conn, waits>>
  /\ UNCHANGED <<late, failures, pc, endpoint, stage, cleanup, cause, met>>

Query(r) ==
  /\ At(r, "query")
  /\ conn \in {"connected", "disconnecting"}
  /\ Go(r)
  /\ UNCHANGED <<conn, late, failures, pc, endpoint, stage, cleanup, waits, cause, met>>

(* A query that is buffered for too long, or that meets a closing client.  *)
LoseConnection(r) ==
  /\ At(r, "query")
  /\ conn # "connected"
  /\ Throw(r, "connection")
  /\ UNCHANGED <<conn, late, failures, pc, endpoint, stage, waits, met>>

FailQuery(r) ==
  /\ At(r, "query")
  /\ conn = "connected" /\ failures < MaxFailures
  /\ failures' = failures + 1
  /\ Throw(r, "database")
  /\ UNCHANGED <<conn, late, pc, endpoint, stage, waits, met>>

(* Fault: close() waits for a connection that is closed to open.           *)
CloseOnceOpen(r) ==
  /\ At(r, "close")
  /\ Go(r)
  /\ conn' = IF conn = "connected" THEN "disconnecting" ELSE conn
  /\ Wait(r, IF conn \in {"disconnected", "connecting"} THEN "open" ELSE "close")
  /\ UNCHANGED <<late, failures, pc, endpoint, stage, cleanup, cause, met>>

(* close() of a connection that is opening closes it as soon as it is open *)
Close(r) ==
  /\ At(r, "close")
  /\ Go(r)
  /\ conn' = IF conn = "connected" THEN "disconnecting" ELSE conn
  /\ Wait(r, IF conn = "disconnected" THEN None
             ELSE IF conn = "connecting" THEN "open" ELSE "close")
  /\ UNCHANGED <<late, failures, pc, endpoint, stage, cleanup, cause, met>>

Release(r) ==
  /\ At(r, "release")
  /\ Go(r)
  /\ conn' = IF conn = "connected" THEN "disconnecting" ELSE conn
  /\ late' = (late \/ conn = "connecting")
  /\ UNCHANGED <<failures, pc, endpoint, stage, cleanup, waits, cause, met>>

(* The calls of a stage are over, and the handler has another one.         *)
Enter(r) ==
  /\ pc[r] = "running" /\ waits[r] = None
  /\ todo[r] = <<>> /\ cause[r] = None
  /\ stage[r] < Len(Handler[endpoint[r]])
  /\ stage' = [stage EXCEPT ![r] = @ + 1]
  /\ \E calls \in Handler[endpoint[r]][stage[r] + 1] : todo' = [todo EXCEPT ![r] = calls]
  /\ UNCHANGED <<conn, late, failures, pc, endpoint, cleanup, waits, cause, met>>

Over(r) == todo[r] = <<>> /\ (cause[r] = None => stage[r] = Len(Handler[endpoint[r]]))

(* Fault: res.end() is not in a finally block.                             *)
RespondToSuccess(r) ==
  /\ pc[r] = "running" /\ waits[r] = None
  /\ Over(r) /\ cause[r] = None
  /\ pc' = [pc EXCEPT ![r] = "ok"]
  /\ UNCHANGED <<conn, late, failures, endpoint, stage, todo, cleanup, waits, cause, met>>

(* The endpoint writes the answer, or errorHandler does, and res.end().    *)
Respond(r) ==
  /\ pc[r] = "running" /\ waits[r] = None
  /\ Over(r)
  /\ pc' = [pc EXCEPT ![r] = IF cause[r] = None THEN "ok" ELSE "error"]
  /\ UNCHANGED <<conn, late, failures, endpoint, stage, todo, cleanup, waits, cause, met>>

-----------------------------------------------------------------------------
(* Events of the connection.                                               *)

(* The connect() that waits goes on, but the listeners of a close() that   *)
(* waits run first and close the connection again.                         *)
Opened ==
  /\ conn = "connecting"
  /\ conn' = IF late \/ \E r \in Request : waits[r] = "open"
               THEN "disconnecting" ELSE "connected"
  /\ late' = FALSE
  /\ waits' = [r \in Request |->
       IF waits[r] = "connect" THEN None
       ELSE IF waits[r] = "open" THEN "close" ELSE waits[r]]
  /\ UNCHANGED <<failures, pc, endpoint, stage, todo, cleanup, cause, met>>

(* mongoose.connect() is rejected; nobody tells those that wait to close.  *)
Refused(r) ==
  /\ conn = "connecting" /\ waits[r] = "connect"
  /\ failures < MaxFailures
  /\ failures' = failures + 1
  /\ conn' = "disconnected"
  /\ Wait(r, None)
  /\ Throw(r, "database")
  /\ UNCHANGED <<late, pc, endpoint, stage, met>>

Closed ==
  /\ conn = "disconnecting"
  /\ conn' = "disconnected"
  /\ waits' = [r \in Request |-> IF waits[r] = "close" THEN None ELSE waits[r]]
  /\ UNCHANGED <<late, failures, pc, endpoint, stage, todo, cleanup, cause, met>>

-----------------------------------------------------------------------------
Proceed(r) ==
  \/ Enter(r) \/ Try(r) \/ End(r) \/ Check(r)
  \/ Connect(r) \/ Query(r) \/ LoseConnection(r) \/ FailQuery(r)
  \/ Close(r) \/ Release(r)
  \/ Respond(r)

Next ==
  \/ Opened \/ Closed
  \/ \E r \in Request :
       \/ \E e \in Endpoints : Arrive(r, e) \/ ArriveWithWrongMethod(r, e)
       \/ Proceed(r) \/ Refused(r)

Spec == Init /\ [][Next]_vars

(* Promises settle: handlers go on, queries come back or time out, and a   *)
(* connection that is opening or closing gets there.                       *)
FairSpec ==
  /\ Spec
  /\ \A r \in Request : WF_vars(Proceed(r))
  /\ WF_vars(Opened) /\ WF_vars(Closed)

-----------------------------------------------------------------------------
(* Properties.                                                             *)

Quiet == \A r \in Request : pc[r] # "running"

(* A close that waits for a connection which was refused, and which nobody *)
(* else is opening, waits until some later request opens one.              *)
Stranded(r) == waits[r] = "open" /\ conn = "disconnected"

(* Every request with an allowed method is answered, however requests      *)
(* close the connection under each other; only one that waits to close a   *)
(* connection that was refused may not be (try, catch and finally of the   *)
(* endpoints).                                                             *)
EveryResponseEnds ==
  \A r \in Request : pc[r] = "running" ~> pc[r] \in Ended \/ Stranded(r)

(* Only a request that closes what another one is opening can wait in      *)
(* vain, and only if that other one was refused: one that runs alone is    *)
(* always answered, whatever fails (database/lib/connect.ts).              *)
OnlyRefusalStrands ==
  \A r \in Request : Stranded(r) => \E q \in met[r] : cause[q] = "database"

(* A userinfo request may leave a close behind that nobody awaits          *)
(* (userinfo/helpers.ts): if its own first close was not reached, or if    *)
(* others have opened the connection again since.                          *)
LeavesClose(q) ==
  /\ endpoint[q] = "userinfo"
  /\ cause[q] \in {"database", "connection"} \/ met[q] # {}

(* Requests that come one after the other, as in a serverless function, do *)
(* not lose the connection to each other, whatever failed before: one that *)
(* runs alone loses it only to the close an earlier userinfo request left. *)
SequentialRequestsKeepConnection ==
  \A r \in Request :
    cause[r] = "connection" =>
      met[r] # {} \/ \E q \in Request \ {r} : LeavesClose(q)

(* Once nothing runs, the connection is closed or closing, although any    *)
(* request may have opened it for others: it is left open only by a failed *)
(* query where the code has no finally (login, fetchKeys and saveKeys).    *)
ConnectionIsReturned ==
  Quiet /\ conn \in {"connecting", "connected"} =>
    \E r \in Request :
      /\ cause[r] \in {"database", "connection"}
      /\ endpoint[r] \in {"authorization", "login", "consent", "jwks"}

=============================================================================
