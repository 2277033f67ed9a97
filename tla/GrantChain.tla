------------------------------ MODULE GrantChain ------------------------------
(***************************************************************************)
(* What the token endpoint promises about grants, with no documents, no    *)
(* validation and no time: an authorization code starts a chain, of which  *)
(* there is one grant at a time; a request takes the grant, and returns    *)
(* the next one before it is served; a chain that has lost its grant never *)
(* has one again.  Tokens implements it (ChainPromise).                    *)
(***************************************************************************)
CONSTANTS
  Chain,    \* the chains, named by the authorization codes that start them
  Request   \* the requests to the token endpoint

VARIABLES
  started,   \* chains whose code has been issued
  grants,    \* chains whose grant, a code or a refresh token, can be redeemed
  held,      \* the grants that requests have taken: of which chain, by whom
  used,      \* requests that have taken a grant to return the next: one each
  returned,  \* requests that have put the next grant in its place
  served     \* requests that were answered with it

vars == <<started, grants, held, used, returned, served>>

Init ==
  /\ started = {} /\ grants = {} /\ held = {}
  /\ used = {} /\ returned = {} /\ served = {}

(* A code is issued.                                                       *)
Start(c) ==
  /\ c \notin started
  /\ started' = started \cup {c}
  /\ grants' = grants \cup {c}
  /\ UNCHANGED <<held, used, returned, served>>

(* A request consumes the code or the refresh token.                       *)
Take(c, r) ==
  /\ c \in grants /\ r \notin used
  /\ grants' = grants \ {c}
  /\ held' = held \cup {[chain |-> c, by |-> r]}
  /\ used' = used \cup {r}
  /\ UNCHANGED <<started, returned, served>>

(* It creates the refresh token that comes next.                           *)
Return(h) ==
  /\ h \in held
  /\ held' = held \ {h}
  /\ grants' = grants \cup {h.chain}
  /\ returned' = returned \cup {h.by}
  /\ UNCHANGED <<started, used, served>>

Serve(r) ==
  /\ r \in returned
  /\ served' = served \cup {r}
  /\ UNCHANGED <<started, grants, held, used, returned>>

(* The grant expires or is revoked, or is deleted in vain, also by a       *)
(* request that takes the grant of another chain.                          *)
End(c) ==
  /\ c \in grants
  /\ grants' = grants \ {c}
  /\ UNCHANGED <<started, held, used, returned, served>>

(* The request that holds the grant fails.                                 *)
Lose(h) ==
  /\ h \in held
  /\ held' = held \ {h}
  /\ UNCHANGED <<started, grants, used, returned, served>>

Next ==
  \/ \E c \in Chain \ started : Start(c)
  \/ \E c \in grants : End(c) \/ \E r \in Request : Take(c, r)
  \/ \E h \in held : Return(h) \/ Lose(h)
  \/ \E r \in returned : Serve(r)

Spec == Init /\ [][Next]_vars

=============================================================================
