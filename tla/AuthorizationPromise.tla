------------------------- MODULE AuthorizationPromise -------------------------
(***************************************************************************)
(* What an authorization flow promises, with no cookies, no pages and no   *)
(* prompts: a flow is about one client, and a client is answered only for  *)
(* a flow one of whose users, those who were logged in with it, has        *)
(* consented to its client.  Nothing of this is ever taken back.           *)
(* AuthorizationFlow implements it (FlowPromise).                          *)
(***************************************************************************)
CONSTANTS
  Flow,    \* the flows, named by the requests that start them
  User,
  Client,
  None

VARIABLES
  client,    \* the client each flow is about
  users,     \* the users each flow was bound to
  consents,  \* the clients each user has consented to
  answered   \* the flow each request was answered for

vars == <<client, users, consents, answered>>

Init ==
  /\ client = [f \in Flow |-> None]
  /\ users = [f \in Flow |-> {}]
  /\ consents \in [User -> SUBSET Client]
  /\ answered = [f \in Flow |-> None]

(* A flow begins, with the user of the browser if there is one.            *)
Start(f, c, bound) ==
  /\ client[f] = None
  /\ client' = [client EXCEPT ![f] = c]
  /\ users' = [users EXCEPT ![f] = bound]
  /\ UNCHANGED <<consents, answered>>

(* A user who has logged in takes it up.                                   *)
Bind(f, u) ==
  /\ client[f] # None
  /\ users' = [users EXCEPT ![f] = @ \cup {u}]
  /\ UNCHANGED <<client, consents, answered>>

(* A user consents to its client.                                          *)
Agree(f, u) ==
  /\ client[f] # None
  /\ consents' = [consents EXCEPT ![u] = @ \cup {client[f]}]
  /\ UNCHANGED <<client, users, answered>>

(* The client gets the answer to request r, possibly for another's flow.   *)
Answer(r, f) ==
  /\ answered[r] = None
  /\ \E u \in users[f] : client[f] \in consents[u]
  /\ answered' = [answered EXCEPT ![r] = f]
  /\ UNCHANGED <<client, users, consents>>

Next ==
  \E f \in Flow :
    \/ \E c \in Client, bound \in {{}} \cup {{u} : u \in User} : Start(f, c, bound)
    \/ \E u \in User : Bind(f, u) \/ Agree(f, u)
    \/ \E r \in Flow : Answer(r, f)

Spec == Init /\ [][Next]_vars

=============================================================================
