--------------------------- MODULE GrantChainProofs ---------------------------
(***************************************************************************)
(* Tokens implements GrantChain, for every number of requests, tokens and  *)
(* authorizations: the initial state is mapped to an initial state, and    *)
(* every step to a step of GrantChain or to none.                          *)
(***************************************************************************)
EXTENDS TokensProofs

(* What the handlers know of their requests besides Sessions: which kind   *)
(* of request can be where, that a request holds nothing before it has     *)
(* consumed something, and that it is answered only after it has minted.   *)
Ledger(r) ==
  /\ pc[r] = "idle" => r \notin GrantRequests
  /\ pc[r] \in {"narrow", "discard", "consume", "drop", "mint"} => r \in GrantRequests
  /\ pc[r] \in {"find", "delete"} => r \notin GrantRequests
  /\ pc[r] \in {"idle", "narrow", "discard", "consume", "find", "describe", "claims"} =>
       work[r].root = None
  /\ "refresh" \in pending[r] => r \in GrantRequests /\ pc[r] \in {"mint", "error"}
  /\ pc[r] = "ok" => pending[r] = {}
  /\ pc[r] = "mint" => "refresh" \in pending[r] \/ HasMinted(r, "refresh")
  /\ pc[r] = "ok" /\ r \in GrantRequests => HasMinted(r, "refresh")

Ledgers == Sessions /\ \A r \in Request : Ledger(r)

(* What the mapping makes of a state.                                      *)
Started == {c \in Token : tokens[c].state # "unused" /\ tokens[c].type = "code"}
Grants == {tokens[t].root : t \in {u \in Token : Redeemable(u, tokens[u].root)}}
Held == {[chain |-> work[r].root, by |-> r] :
           r \in {q \in Request : Redeeming(q, work[q].root)}}
Used == {r \in GrantRequests : work[r].root # None}
Returned == {r \in Request : HasMinted(r, "refresh")}
Served == {r \in GrantRequests : pc[r] = "ok"}

LEMMA GrantsAre ==
  /\ \A c : c \in Grants <=> \E t \in Token : Redeemable(t, c)
  /\ \A c : c \in Grants' <=> \E t \in Token : Redeemable(t, c)'
BY DEF Grants, Redeemable, Live

(* A step that leaves every request alone is seen in the documents only.   *)
LEMMA SameLedger ==
  ASSUME Ledgers, UNCHANGED <<pc, payload, work, pending>>,
         \A r \in Request : HasMinted(r, "refresh")' <=> HasMinted(r, "refresh")
  PROVE  /\ \A r \in Request : Ledger(r)'
         /\ UNCHANGED <<Held, Used, Returned, Served>>
<1>1. GrantRequests' = GrantRequests
  BY DEF GrantRequests
<1>2. \A r \in Request : Ledger(r)'
  BY <1>1 DEF Ledgers, Ledger
<1>3. Held' = Held
  BY DEF Held, Redeeming
<1> QED
  BY <1>1, <1>2, <1>3 DEF Used, Returned, Served

(* Removing documents mints nothing and starts nothing.                    *)
LEMMA RemoveMints ==
  ASSUME Shape, NEW t \in Token, NEW reason \in TokenState \ {"unused"},
         Live(t), Remove(t, reason)
  PROVE  /\ \A r \in Request : HasMinted(r, "refresh")' <=> HasMinted(r, "refresh")
         /\ Started' = Started
<1>1. \A u \in Token : /\ tokens'[u].type = tokens[u].type
                       /\ tokens'[u].by = tokens[u].by
                       /\ tokens'[u].state = "unused" <=> tokens[u].state = "unused"
  BY DEF Shape, TypeOK, TokenDoc, Live, Remove
<1> QED
  BY <1>1 DEF HasMinted, Started

(* Removing a document ends the chain it was the grant of, if any.         *)
LEMMA RemoveEnds ==
  ASSUME Sessions, NEW t \in Token, NEW reason \in TokenState \ {"unused", "live"},
         Live(t), Remove(t, reason)
  PROVE  \/ ~Redeemable(t, tokens[t].root) /\ Grants' = Grants
         \/ tokens[t].root \in Grants /\ Grants' = Grants \ {tokens[t].root}
<1>1. \A u, c \in Token : Redeemable(u, c)' <=> Redeemable(u, c) /\ u # t
  BY RemoveRedeemable DEF Sessions
<1>2. \A u \in Token : tokens[u].root \in Token /\ tokens'[u].root = tokens[u].root
  BY RemoveRedeemable DEF Sessions, Shape, TypeOK, TokenDoc
<1>3. \A u \in Token : \A c : Redeemable(u, c) \/ Redeemable(u, c)' => c = tokens[u].root
  BY <1>2 DEF Redeemable
<1>4. \A c : c \in Grants' <=> \E u \in Token : Redeemable(u, c) /\ u # t
  BY <1>1, <1>2, <1>3, GrantsAre
<1>5. CASE ~Redeemable(t, tokens[t].root)
  <2>1. \A u \in Token : \A c : Redeemable(u, c) => u # t
    BY <1>3, <1>5
  <2> QED
    BY <1>4, <1>5, <2>1, GrantsAre
<1>6. CASE Redeemable(t, tokens[t].root)
  <2>1. \A u \in Token : Redeemable(u, tokens[t].root) => u = t
    BY <1>2, <1>6 DEF Sessions, NoForkedSession
  <2> QED
    BY <1>3, <1>4, <1>6, <2>1, GrantsAre
<1> QED
  BY <1>5, <1>6

(* A document that is no grant leaves the grants as they are.              *)
LEMMA AddNoGrant ==
  ASSUME Shape, NEW t \in Token, NEW d, tokens[t].state = "unused", d.type = "access",
         tokens' = [tokens EXCEPT ![t] = d]
  PROVE  Grants' = Grants /\ Started' = Started
<1>1. \A u \in Token : tokens'[u] = IF u = t THEN d ELSE tokens[u]
  BY DEF Shape, TypeOK
<1>2. \A u \in Token : \A c : Redeemable(u, c)' <=> Redeemable(u, c)
  BY <1>1 DEF Redeemable, Live
<1>3. Grants' = Grants
  BY <1>2, GrantsAre
<1> QED
  BY <1>1, <1>3 DEF Started

(* A new grant adds its chain to the grants.                               *)
LEMMA AddGrant ==
  ASSUME Shape, NEW t \in Token, NEW d, tokens[t].state = "unused",
         d.state = "live", d.type \in {"code", "refresh"},
         tokens' = [tokens EXCEPT ![t] = d]
  PROVE  /\ Grants' = Grants \cup {d.root}
         /\ Started' = IF d.type = "code" THEN Started \cup {t} ELSE Started
<1>1. \A u \in Token : tokens'[u] = IF u = t THEN d ELSE tokens[u]
  BY DEF Shape, TypeOK
<1>2. \A u \in Token : \A c :
        Redeemable(u, c)' <=> Redeemable(u, c) \/ (u = t /\ c = d.root)
  BY <1>1 DEF Redeemable, Live
<1>3. Grants' = Grants \cup {d.root}
  BY <1>2, GrantsAre
<1>4. \A u \in Token : u \in Started' <=> u \in Started \/ (u = t /\ d.type = "code")
  BY <1>1 DEF Started
<1> QED
  BY <1>3, <1>4 DEF Started

LEMMA InitLedgers == Init => Ledgers
<1> SUFFICES ASSUME Init PROVE \A r \in Request : Ledger(r)
  BY InitSessions DEF Ledgers
<1> QED
  BY NoneAssumption
     DEF Init, NoWork, NoPayload, Ledger, GrantRequests, GrantKind, Kind

LEMMA InitRefines == Init => Chain!Init
<1> SUFFICES ASSUME Init PROVE Chain!Init
  OBVIOUS
<1>1. GrantRequests = {} /\ Started = {} /\ Returned = {}
  BY NoneAssumption
     DEF Init, NoPayload, GrantRequests, GrantKind, Kind, Started, Returned, HasMinted
<1>2. Grants = {} /\ Held = {}
  BY NoneAssumption DEF Init, NoWork, Grants, Held, Redeemable, Redeeming, Live
<1> QED
  BY <1>1, <1>2 DEF Started, Grants, Held, Used, Returned, Served, Chain!Init

(* What a step may do, seen through the mapping.                           *)
Seen == Ledgers' /\ [Chain!Next]_Chain!vars

LEMMA SeenIfSame ==
  ASSUME Sessions', \A r \in Request : Ledger(r)',
         UNCHANGED <<Started, Grants, Held, Used, Returned, Served>>
  PROVE  Seen
BY DEF Seen, Ledgers, Chain!vars, Started, Grants, Held, Used, Returned, Served

LEMMA SeenAsEnd ==
  ASSUME Sessions', \A r \in Request : Ledger(r)', NEW c \in Grants, Grants' = Grants \ {c},
         UNCHANGED <<Started, Held, Used, Returned, Served>>
  PROVE  Seen
<1>1. Chain!End(c)
  BY DEF Chain!End, Started, Grants, Held, Used, Returned, Served
<1>2. Chain!Next
  BY <1>1 DEF Chain!Next, Grants
<1> QED
  BY <1>2 DEF Seen, Ledgers

(* Tick, the TTL monitor and the authorization endpoint.                   *)
LEMMA IssueSeen ==
  ASSUME Ledgers, Sessions', Tick \/ Reap \/ \E a \in Authorization : Issue(a)
  PROVE  Seen
<1>1. UNCHANGED <<pc, payload, work, pending>>
  BY DEF Tick, Reap, ReapToken, ReapAuthorization, Issue, CreateAuthorization, Consent,
         IssueCode, IssueFrontChannelToken
<1>2. CASE UNCHANGED tokens
  <2>1. \A r \in Request : HasMinted(r, "refresh")' <=> HasMinted(r, "refresh")
    BY <1>2 DEF HasMinted
  <2>2. UNCHANGED <<Started, Grants>>
    BY <1>2 DEF Started, Grants, Redeemable, Live
  <2> QED
    BY <1>1, <2>1, <2>2, SameLedger, SeenIfSame
<1>3. ASSUME NEW t \in Token, ReapToken(t)
      PROVE  Seen
  <2>1. /\ Shape /\ "expired" \in TokenState \ {"unused", "live"}
        /\ Live(t) /\ Remove(t, "expired")
    BY <1>3 DEF ReapToken, Remove, TokenState, Ledgers, Sessions
  <2>2. /\ \A r \in Request : HasMinted(r, "refresh")' <=> HasMinted(r, "refresh")
        /\ Started' = Started
    BY <2>1, RemoveMints
  <2>3. \/ Grants' = Grants
        \/ tokens[t].root \in Grants /\ Grants' = Grants \ {tokens[t].root}
    BY <2>1, RemoveEnds DEF Ledgers
  <2> QED
    BY <1>1, <2>2, <2>3, SameLedger, SeenIfSame, SeenAsEnd
<1>4. ASSUME NEW a \in Authorization, NEW t \in Token,
             IssueCode(a, t) \/ IssueFrontChannelToken(a, t)
      PROVE  Seen
  <2>1. PICK d : /\ tokens[t].state = "unused" /\ tokens' = [tokens EXCEPT ![t] = d]
                 /\ d.state = "live" /\ d.by = None
                 /\ \/ d.type = "code" /\ d.root = t
                    \/ d.type = "access"
    <3>1. CASE IssueCode(a, t)
      <4>1. Document("code", a, t, None, now + CodeLife).state = "live"
              /\ Document("code", a, t, None, now + CodeLife).by = None
              /\ Document("code", a, t, None, now + CodeLife).type = "code"
              /\ Document("code", a, t, None, now + CodeLife).root = t
        BY DEF Document
      <4> QED
        BY <3>1, <4>1 DEF IssueCode, Fresh
    <3>2. CASE IssueFrontChannelToken(a, t)
      <4>1. Document("access", a, t, None, now + AccessLife).state = "live"
              /\ Document("access", a, t, None, now + AccessLife).by = None
              /\ Document("access", a, t, None, now + AccessLife).type = "access"
              /\ Document("access", a, t, None, now + AccessLife).root = t
        BY DEF Document
      <4> QED
        BY <3>2, <4>1 DEF IssueFrontChannelToken, Fresh
    <3> QED
      BY <1>4, <3>1, <3>2
  <2>2. \A r \in Request : HasMinted(r, "refresh")' <=> HasMinted(r, "refresh")
    BY <2>1, NoneAssumption DEF HasMinted, Ledgers, Sessions, Shape, TypeOK
  <2>3. /\ \A r \in Request : Ledger(r)'
        /\ UNCHANGED <<Held, Used, Returned, Served>>
    BY <1>1, <2>2, SameLedger
  <2>4. CASE d.type = "access"
    BY <2>1, <2>3, <2>4, AddNoGrant, SeenIfSame DEF Ledgers, Sessions
  <2>5. CASE d.type = "code" /\ d.root = t
    <3>1. Grants' = Grants \cup {t} /\ Started' = Started \cup {t}
      BY <2>1, <2>5, AddGrant DEF Ledgers, Sessions
    <3>2. t \in Token \ Started
      BY <2>1 DEF Started
    <3>3. Chain!Start(t)
      BY <2>3, <3>1, <3>2 DEF Chain!Start, Started, Grants, Held, Used, Returned, Served
    <3>4. Chain!Next
      BY <3>2, <3>3 DEF Chain!Next, Started
    <3> QED
      BY <2>3, <3>4 DEF Seen, Ledgers
  <2> QED
    BY <2>1, <2>4, <2>5
<1>5. Tick \/ (\E a \in Authorization : ReapAuthorization(a) \/ Consent(a)
                 \/ \E scope \in SUBSET Scope : CreateAuthorization(a, scope))
        => UNCHANGED tokens
  BY DEF Tick, ReapAuthorization, Consent, CreateAuthorization
<1> QED
  BY <1>2, <1>3, <1>4, <1>5 DEF Reap, Issue

-----------------------------------------------------------------------------
(* Steps of one request.  What the others hold and owe stays.              *)
OthersStay(r) ==
  \A q \in Request \ {r} :
    /\ pc'[q] = pc[q] /\ payload'[q] = payload[q]
    /\ work'[q] = work[q] /\ pending'[q] = pending[q]
    /\ HasMinted(q, "refresh")' <=> HasMinted(q, "refresh")

Debt(r) == [chain |-> work[r].root, by |-> r]
InDebt(r) == Redeeming(r, work[r].root)

LEMMA OthersLedgers ==
  ASSUME Ledgers, NEW r \in Request, OthersStay(r), Ledger(r)'
  PROVE  \A q \in Request : Ledger(q)'
<1>1. \A q \in Request \ {r} : q \in GrantRequests' <=> q \in GrantRequests
  BY DEF OthersStay, GrantRequests
<1>2. \A q \in Request \ {r} : Ledger(q)'
  BY <1>1 DEF OthersStay, Ledgers, Ledger
<1> QED
  BY <1>2

LEMMA OthersHold ==
  ASSUME NEW r \in Request, OthersStay(r)
  PROVE  /\ InDebt(r) /\ InDebt(r)' /\ Debt(r)' = Debt(r) => Held' = Held
         /\ ~InDebt(r) /\ ~InDebt(r)' => Held' = Held
         /\ ~InDebt(r) /\ InDebt(r)' => Held' = Held \cup {Debt(r)'}
         /\ InDebt(r) /\ ~InDebt(r)' => Debt(r) \in Held /\ Held' = Held \ {Debt(r)}
<1>1. /\ \A h : h \in Held <=> \E q \in Request : InDebt(q) /\ h = Debt(q)
      /\ \A h : h \in Held' <=> \E q \in Request : InDebt(q)' /\ h = Debt(q)'
  BY DEF Held, InDebt, Debt
<1>2. \A q \in Request \ {r} : (InDebt(q)' <=> InDebt(q)) /\ Debt(q)' = Debt(q)
  BY DEF OthersStay, InDebt, Debt, Redeeming
<1>3. \A q \in Request \ {r} : Debt(q) # Debt(r) /\ Debt(q) # Debt(r)'
  BY DEF Debt
<1> HIDE DEF Held, Debt, InDebt
<1> QED
  BY <1>1, <1>2, <1>3

LEMMA OthersCounted ==
  ASSUME NEW r \in Request, OthersStay(r)
  PROVE  \A q \in Request \ {r} :
           /\ q \in Used' <=> q \in Used
           /\ q \in Returned' <=> q \in Returned
           /\ q \in Served' <=> q \in Served
BY DEF OthersStay, Used, Returned, Served, GrantRequests

SameStanding(r) ==
  /\ r \in Used' <=> r \in Used
  /\ r \in Returned' <=> r \in Returned
  /\ r \in Served' <=> r \in Served

LEMMA StandingKept ==
  ASSUME NEW r \in Request, OthersStay(r), SameStanding(r)
  PROVE  UNCHANGED <<Used, Returned, Served>>
<1>1. /\ Used \subseteq Request /\ Used' \subseteq Request
      /\ Returned \subseteq Request /\ Returned' \subseteq Request
      /\ Served \subseteq Request /\ Served' \subseteq Request
  BY DEF Used, Returned, Served, GrantRequests
<1> HIDE DEF Used, Returned, Served
<1> QED
  BY <1>1, OthersCounted DEF SameStanding

SameDebt(r) ==
  /\ InDebt(r)' <=> InDebt(r)
  /\ InDebt(r) => Debt(r)' = Debt(r)

(* A step of r that takes no grant and pays no debt: if it does anything   *)
(* to the chains, it ends one.                                             *)
LEMMA SeenIfSameDebt ==
  ASSUME Ledgers, Sessions', NEW r \in Request, OthersStay(r), Ledger(r)',
         SameDebt(r), SameStanding(r), Started' = Started,
         Grants' = Grants \/ \E c \in Grants : Grants' = Grants \ {c}
  PROVE  Seen
<1>1. Held' = Held
  BY OthersHold DEF SameDebt
<1>2. UNCHANGED <<Used, Returned, Served>>
  BY StandingKept
<1> QED
  BY <1>1, <1>2, OthersLedgers, SeenIfSame, SeenAsEnd

(* A step of r after which it no longer owes the grant it took.            *)
LEMMA SeenAsLose ==
  ASSUME Ledgers, Sessions', NEW r \in Request, OthersStay(r), Ledger(r)',
         InDebt(r), ~InDebt(r)', SameStanding(r), UNCHANGED <<Started, Grants>>
  PROVE  Seen
<1>1. PICK h \in Held : Held' = Held \ {h}
  BY OthersHold
<1>2. UNCHANGED <<Used, Returned, Served>>
  BY StandingKept
<1>3. Chain!Lose(h)
  BY <1>1, <1>2 DEF Chain!Lose, Started, Grants, Held, Used, Returned, Served
<1>4. Chain!Next
  BY <1>1, <1>3 DEF Chain!Next, Held
<1> QED
  BY <1>4, OthersLedgers DEF Seen, Ledgers

(* The same for a step that leaves the documents and the locals of r.      *)
LEMMA SeenByStop ==
  ASSUME Ledgers, Sessions', NEW r \in Request, UNCHANGED <<tokens, payload, work>>,
         \A q \in Request \ {r} : pc'[q] = pc[q] /\ pending'[q] = pending[q],
         Ledger(r)', InDebt(r)' => InDebt(r), r \in Served' <=> r \in Served
  PROVE  Seen
<1>1. \A q \in Request : HasMinted(q, "refresh")' <=> HasMinted(q, "refresh")
  BY DEF HasMinted
<1>2. OthersStay(r)
  BY <1>1 DEF OthersStay
<1>3. UNCHANGED <<Started, Grants>>
  BY DEF Started, Grants, Redeemable, Live
<1>4. SameStanding(r)
  BY <1>1 DEF SameStanding, Used, Returned, GrantRequests
<1>5. Debt(r)' = Debt(r)
  BY DEF Debt
<1> QED
  BY <1>2, <1>3, <1>4, <1>5, SeenIfSameDebt, SeenAsLose DEF SameDebt

LEMMA DisturbSeen ==
  ASSUME Ledgers, Sessions', NEW r \in Request, Disturb(r)
  PROVE  Seen
<1>1. /\ UNCHANGED <<tokens, payload, work>>
      /\ \A q \in Request \ {r} : pc'[q] = pc[q] /\ pending'[q] = pending[q]
      /\ pc'[r] \in {"error", "crashed"}
      /\ pending'[r] \subseteq pending[r]
      /\ pc'[r] = "crashed" => pending'[r] = {}
  BY DEF Disturb, Fail, Crash, FailWrite, Applied, Goto, Ledgers, Sessions, Shape, TypeOK
<1>2. GrantRequests' = GrantRequests
  BY <1>1 DEF GrantRequests
<1>3. Ledger(r)'
  BY <1>1, <1>2 DEF Ledger, Ledgers
<1>4. InDebt(r)' => InDebt(r)
  BY <1>1 DEF InDebt, Redeeming
<1>5. pc[r] # "ok"
  BY DEF Disturb, Fail, Crash, FailWrite, Applied, Running, Ledgers, Ledger
<1>6. r \in Served' <=> r \in Served
  BY <1>1, <1>5 DEF Served
<1> QED
  BY <1>1, <1>3, <1>4, <1>6, SeenByStop

LEMMA ReceiveSeen ==
  ASSUME Ledgers, Sessions', NEW r \in Request, Receive(r)
  PROVE  Seen
<1>1. PICK p \in Payload : \E label \in Reached(p.kind) : Reject(r) \/ Accept(r, p, label)
  BY ReceiveAnswers DEF Ledgers, Sessions
<1>2. pc[r] = "idle" /\ pending[r] = {} /\ r \notin GrantRequests /\ work[r].root = None
  BY DEF Receive, Ledgers, Ledger, Sessions, Shape, Bookkeeping, HoldsItsData
<1>3. CASE Reject(r)
  <2>1. /\ UNCHANGED <<tokens, payload, work, pending>>
        /\ \A q \in Request \ {r} : pc'[q] = pc[q]
        /\ pc'[r] = "invalid"
    BY <1>3 DEF Reject, Goto, Ledgers, Sessions, Shape, TypeOK
  <2>2. GrantRequests' = GrantRequests
    BY <2>1 DEF GrantRequests
  <2>3. Ledger(r)' /\ (InDebt(r)' => InDebt(r)) /\ (r \in Served' <=> r \in Served)
    BY <1>2, <2>1, <2>2 DEF Ledger, InDebt, Redeeming, Served
  <2> QED
    BY <2>1, <2>3, SeenByStop
<1>4. ASSUME NEW label \in Reached(p.kind), Accept(r, p, label)
      PROVE  Seen
  <2>1. /\ UNCHANGED <<tokens, work, pending>>
        /\ \A q \in Request \ {r} : pc'[q] = pc[q] /\ payload'[q] = payload[q]
        /\ pc'[r] = label /\ payload'[r] = p
    BY <1>4 DEF Accept, Goto, Ledgers, Sessions, Shape, TypeOK
  <2>2. r \in GrantRequests' <=> p.kind \in GrantKind
    BY <2>1 DEF GrantRequests
  <2>3. Ledger(r)' /\ ~InDebt(r) /\ ~InDebt(r)'
    BY <1>2, <1>4, <2>1, <2>2 DEF Ledger, InDebt, Redeeming, Reached
  <2>4. \A q \in Request : HasMinted(q, "refresh")' <=> HasMinted(q, "refresh")
    BY <2>1 DEF HasMinted
  <2>5. SameStanding(r)
    BY <1>2, <1>4, <2>1, <2>2, <2>4 DEF SameStanding, Used, Returned, Served, Reached
  <2>6. OthersStay(r) /\ UNCHANGED <<Started, Grants>>
    BY <2>1, <2>4 DEF OthersStay, Started, Grants, Redeemable, Live
  <2> QED
    BY <2>3, <2>5, <2>6, SeenIfSameDebt DEF SameDebt
<1> QED
  BY <1>1, <1>3, <1>4

-----------------------------------------------------------------------------
(* The steps of the handlers.                                              *)

(* Steps that touch neither documents of tokens nor what was read of them. *)
LEMMA PassSeen ==
  ASSUME Ledgers, Sessions', NEW r \in Request,
         \/ NarrowScope(r) \/ ConsumeNothing(r) \/ DescribeToken(r) \/ ServeClaims(r)
         \/ ExtendAuthorization(r)
         \/ Respond(r) /\ pc[r] = "delete"
  PROVE  Seen
<1>1. /\ UNCHANGED <<tokens, payload, work>>
      /\ \A q \in Request \ {r} : pc'[q] = pc[q] /\ pending'[q] = pending[q]
  BY DEF NarrowScope, ConsumeNothing, DescribeToken, ServeClaims, ExtendAuthorization, Applied,
         Respond, Goto, Ledgers, Sessions, Shape, TypeOK
<1>2. GrantRequests' = GrantRequests
  BY <1>1 DEF GrantRequests
<1>3. HasMinted(r, "refresh")' <=> HasMinted(r, "refresh")
  BY <1>1 DEF HasMinted
<1>4. CASE ExtendAuthorization(r)
  <2>1. pc'[r] = pc[r] /\ pending'[r] = pending[r] \ {"extend"}
    BY <1>4 DEF ExtendAuthorization, Applied, Ledgers, Sessions, Shape, TypeOK
  <2>2. Ledger(r)'
    BY <1>1, <1>2, <1>3, <2>1 DEF Ledger, Ledgers
  <2>3. (InDebt(r)' => InDebt(r)) /\ (r \in Served' <=> r \in Served)
    BY <1>1, <1>2, <2>1 DEF InDebt, Redeeming, Served
  <2> QED
    BY <1>1, <2>2, <2>3, SeenByStop
<1>5. CASE ~ExtendAuthorization(r)
  <2>1. \/ pc[r] = "narrow" /\ pc'[r] \in {"discard", "consume"}
        \/ pc[r] \in {"discard", "consume"} /\ pc'[r] = "error"
        \/ pc[r] = "describe" /\ pc'[r] \in {"active", "inactive"}
        \/ pc[r] = "claims" /\ pc'[r] = "served"
        \/ pc[r] = "delete" /\ pc'[r] = "ok" /\ pending[r] = {}
    BY <1>5 DEF NarrowScope, ConsumeNothing, DescribeToken, ServeClaims, Respond, Goto,
                FirstDeletion, Ledgers, Sessions, Shape, TypeOK
  <2>2. pending'[r] = pending[r]
    BY <1>5 DEF NarrowScope, ConsumeNothing, DescribeToken, ServeClaims, Respond
  <2>3. Ledger(r)'
    BY <1>1, <1>2, <1>3, <2>1, <2>2 DEF Ledger, Ledgers
  <2>4. (InDebt(r)' => InDebt(r)) /\ (r \in Served' <=> r \in Served)
    BY <1>1, <1>2, <2>1, <2>2 DEF InDebt, Redeeming, Served, Ledger, Ledgers
  <2> QED
    BY <1>1, <2>3, <2>4, SeenByStop
<1> QED
  BY <1>4, <1>5

(* Answering a grant serves a request that has returned its successor.     *)
LEMMA ServeSeen ==
  ASSUME Ledgers, Sessions', NEW r \in Request, Respond(r), pc[r] = "mint"
  PROVE  Seen
<1>1. /\ UNCHANGED <<tokens, payload, work, pending>>
      /\ \A q \in Request \ {r} : pc'[q] = pc[q]
      /\ pc'[r] = "ok" /\ pending[r] = {}
  BY DEF Respond, Goto, Ledgers, Sessions, Shape, TypeOK
<1>2. GrantRequests' = GrantRequests
  BY <1>1 DEF GrantRequests
<1>3. \A q \in Request : HasMinted(q, "refresh")' <=> HasMinted(q, "refresh")
  BY <1>1 DEF HasMinted
<1>4. HasMinted(r, "refresh") /\ r \in GrantRequests
  BY <1>1 DEF Ledgers, Ledger
<1>5. Ledger(r)' /\ ~InDebt(r) /\ ~InDebt(r)'
  BY <1>1, <1>2, <1>3, <1>4 DEF Ledger, InDebt, Redeeming
<1>6. OthersStay(r) /\ UNCHANGED <<Started, Grants>>
  BY <1>1, <1>3 DEF OthersStay, Started, Grants, Redeemable, Live
<1>7. Held' = Held
  BY <1>5, <1>6, OthersHold
<1>8. UNCHANGED <<Used, Returned>>
  BY <1>1, <1>2, <1>3 DEF Used, Returned
<1>9. r \in Returned /\ Served' = Served \cup {r}
  <2>1. GrantRequests \subseteq Request
    BY DEF GrantRequests
  <2> QED
    BY <1>1, <1>2, <1>4, <2>1 DEF Returned, Served
<1>10. Chain!Serve(r)
  BY <1>6, <1>7, <1>8, <1>9 DEF Chain!Serve, Started, Grants, Held, Used, Returned, Served
<1>11. Chain!Next
  BY <1>9, <1>10 DEF Chain!Next, Returned
<1> QED
  BY <1>5, <1>6, <1>11, OthersLedgers DEF Seen, Ledgers

(* Removing a document leaves what the requests hold.                      *)
LEMMA RemoveSeen ==
  ASSUME Ledgers, Sessions', NEW r \in Request, NEW t \in Token,
         NEW reason \in TokenState \ {"unused", "live"}, Live(t), Remove(t, reason),
         \A q \in Request \ {r} : /\ pc'[q] = pc[q] /\ payload'[q] = payload[q]
                                  /\ work'[q] = work[q] /\ pending'[q] = pending[q],
         (HasMinted(r, "refresh")' <=> HasMinted(r, "refresh")) => Ledger(r)',
         SameDebt(r), r \in Used' <=> r \in Used, r \in Served' <=> r \in Served
  PROVE  Seen
<1>1. /\ \A q \in Request : HasMinted(q, "refresh")' <=> HasMinted(q, "refresh")
      /\ Started' = Started
  BY RemoveMints DEF Ledgers, Sessions
<1>2. Grants' = Grants \/ \E c \in Grants : Grants' = Grants \ {c}
  BY RemoveEnds DEF Ledgers
<1>3. OthersStay(r) /\ SameStanding(r)
  BY <1>1 DEF OthersStay, SameStanding, Returned
<1> QED
  BY <1>1, <1>2, <1>3, SeenIfSameDebt

(* Consuming a grant takes it from its chain.                              *)
LEMMA TakeSeen ==
  ASSUME Ledgers, Sessions', NEW r \in Request, ConsumeCode(r) \/ ConsumeRefreshToken(r)
  PROVE  Seen
<1> DEFINE t == Redeemed(r)
<1> DEFINE c == tokens[t].root
<1>1. /\ t \in Token /\ Live(t) /\ Remove(t, "consumed") /\ Hold(r, t)
      /\ tokens[t].type \in {"code", "refresh"} /\ c \in Token
      /\ UNCHANGED payload
  BY GrantsAreTokens
     DEF ConsumeCode, ConsumeRefreshToken, Consumable, Finds, Ledgers, Sessions,
         Shape, TypeOK, TokenDoc
<1>2. /\ \A q \in Request \ {r} :
           work'[q] = work[q] /\ pc'[q] = pc[q] /\ pending'[q] = pending[q]
      /\ pc[r] = "consume" /\ pending[r] = {} /\ r \in GrantRequests
      /\ work[r].root = None /\ work'[r].root = c
      /\ \/ pc'[r] = "mint" /\ pending'[r] = {"access", "refresh", "extend"}
         \/ pc'[r] = "drop" /\ pending'[r] = {}
  BY <1>1 DEF ConsumeCode, ConsumeRefreshToken, Consumable, Hold, Goto, Ledgers, Ledger,
              Sessions, Shape, TypeOK, Bookkeeping, HoldsItsData
<1> HIDE DEF c, t
<1>3. /\ \A q \in Request : HasMinted(q, "refresh")' <=> HasMinted(q, "refresh")
      /\ Started' = Started
  BY <1>1, RemoveMints DEF TokenState, Ledgers, Sessions
<1>4. OthersStay(r)
  BY <1>1, <1>2, <1>3 DEF OthersStay
<1>5. GrantRequests' = GrantRequests
  BY <1>1 DEF GrantRequests
<1>6. Ledger(r)'
  BY <1>2, <1>5 DEF Ledger
<1>7. ~InDebt(r) /\ InDebt(r)' /\ Debt(r)' = [chain |-> c, by |-> r]
  BY <1>2 DEF InDebt, Debt, Redeeming
<1>8. Held' = Held \cup {[chain |-> c, by |-> r]}
  BY <1>4, <1>7, OthersHold
<1>9. c \in Grants /\ Grants' = Grants \ {c}
  <2>1. Redeemable(t, c)
    BY <1>1 DEF Redeemable, c
  <2> QED
    BY <1>1, <2>1, RemoveEnds DEF TokenState, Ledgers, c
<1>10. r \notin Used /\ Used' = Used \cup {r} /\ UNCHANGED <<Returned, Served>>
  <2>1. c # None
    BY <1>1, NoneAssumption
  <2>2. r \notin Used /\ Used' = Used \cup {r}
    BY <1>2, <1>4, <1>5, <2>1 DEF Used, GrantRequests, OthersStay
  <2>3. UNCHANGED <<Returned, Served>>
    BY <1>2, <1>3, <1>5 DEF Returned, Served, GrantRequests
  <2> QED
    BY <2>2, <2>3
<1>11. Chain!Take(c, r)
  BY <1>3, <1>8, <1>9, <1>10
     DEF Chain!Take, Started, Grants, Held, Used, Returned, Served
<1>12. Chain!Next
  BY <1>9, <1>11 DEF Chain!Next, Grants
<1> QED
  BY <1>4, <1>6, <1>12, OthersLedgers DEF Seen, Ledgers

(* Minting the refresh token returns the grant; the access token is none.  *)
LEMMA MintSeen ==
  ASSUME Ledgers, Sessions', NEW r \in Request, NEW t \in Token,
         MintAccessToken(r, t) \/ MintRefreshToken(r, t)
  PROVE  Seen
<1>1. PICK type \in {"access", "refresh"}, life \in Nat :
        Mint(r, t, type, life)
  BY LifetimeAssumption DEF MintAccessToken, MintRefreshToken
<1> DEFINE d == Document(type, work[r].authorization, work[r].root, r, work[r].at + life)
<1>2. /\ type \in pending[r]
      /\ pending'[r] = pending[r] \ {type}
      /\ \A q \in Request \ {r} : pending'[q] = pending[q]
      /\ tokens[t].state = "unused"
      /\ tokens' = [tokens EXCEPT ![t] = d]
      /\ UNCHANGED <<pc, payload, work>>
  BY <1>1 DEF Mint, Applied, Fresh, Ledgers, Sessions, Shape, TypeOK
<1>3. d.root = work[r].root /\ d.state = "live" /\ d.type = type /\ d.by = r
  BY DEF Document
<1>4. /\ work[r].root \in Token /\ work[r].root # None
      /\ pc[r] # "drop" /\ pc[r] # "ok"
  BY <1>2, NoneAssumption DEF Ledgers, Ledger, Sessions, Shape, Bookkeeping, HoldsItsData
<1> HIDE DEF d
<1>5. \A u \in Token : tokens'[u] = IF u = t THEN d ELSE tokens[u]
  BY <1>2 DEF Ledgers, Sessions, Shape, TypeOK
<1>6. /\ \A q \in Request \ {r} : HasMinted(q, "refresh")' <=> HasMinted(q, "refresh")
      /\ HasMinted(r, "refresh")' <=> HasMinted(r, "refresh") \/ type = "refresh"
  BY <1>2, <1>3, <1>5 DEF HasMinted
<1>7. OthersStay(r)
  BY <1>2, <1>6 DEF OthersStay
<1>8. GrantRequests' = GrantRequests
  BY <1>2 DEF GrantRequests
<1>9. Ledger(r)'
  BY <1>2, <1>6, <1>8 DEF Ledger, Ledgers
<1>10. UNCHANGED <<Used, Served>>
  BY <1>2, <1>8 DEF Used, Served
<1>11. CASE type = "access"
  <2>1. UNCHANGED <<Started, Grants>>
    BY <1>2, <1>3, <1>11, AddNoGrant DEF Ledgers, Sessions
  <2>2. SameDebt(r)
    BY <1>2, <1>11 DEF SameDebt, InDebt, Debt, Redeeming
  <2>3. SameStanding(r)
    BY <1>6, <1>10, <1>11 DEF SameStanding, Returned
  <2> QED
    BY <1>7, <1>9, <2>1, <2>2, <2>3, SeenIfSameDebt
<1>12. CASE type = "refresh"
  <2>1. Grants' = Grants \cup {work[r].root} /\ Started' = Started
    <3>1. Shape /\ d.type \in {"code", "refresh"} /\ d.type # "code"
      BY <1>3, <1>12 DEF Ledgers, Sessions
    <3>2. Grants' = Grants \cup {d.root} /\ Started' = Started
      BY <1>2, <1>3, <3>1, AddGrant
    <3> QED
      BY <1>3, <3>2
  <2>2. InDebt(r) /\ ~InDebt(r)'
    BY <1>2, <1>4, <1>12 DEF InDebt, Redeeming
  <2>3. Debt(r) \in Held /\ Held' = Held \ {Debt(r)}
    BY <1>7, <2>2, OthersHold
  <2>4. PICK h \in Held : h = Debt(r)
    BY <2>3
  <2>5. h.chain = work[r].root /\ h.by = r
    BY <2>4 DEF Debt
  <2>6. Returned' = Returned \cup {r}
    BY <1>6, <1>12 DEF Returned
  <2>7. Chain!Return(h)
    BY <1>10, <2>1, <2>3, <2>4, <2>5, <2>6
       DEF Chain!Return, Started, Grants, Held, Used, Returned, Served
  <2>8. Chain!Next
    BY <2>7 DEF Chain!Next, Held
  <2> QED
    BY <1>7, <1>9, <2>8, OthersLedgers DEF Seen, Ledgers
<1> QED
  BY <1>11, <1>12

(* Steps that remove a document without taking a grant.                    *)
LEMMA DropSeen ==
  ASSUME Ledgers, Sessions', NEW r \in Request,
         DiscardCode(r) \/ ConsumeOrphan(r) \/ DropAccessToken(r)
  PROVE  Seen
<1>1. /\ UNCHANGED payload
      /\ \A q \in Request \ {r} :
           work'[q] = work[q] /\ pc'[q] = pc[q] /\ pending'[q] = pending[q]
      /\ work'[r].root = work[r].root
      /\ \/ pc[r] = "discard" /\ pc'[r] = "consume" /\ pending'[r] = pending[r]
         \/ pc[r] = "consume" /\ pc'[r] = "error" /\ pending'[r] = pending[r]
         \/ pc[r] = "drop" /\ pc'[r] = "mint" /\ pending'[r] = {"access", "refresh", "extend"}
  BY DEF DiscardCode, ConsumeOrphan, DropAccessToken, Goto, Ledgers, Sessions, Shape, TypeOK, Work
<1>2. GrantRequests' = GrantRequests
  BY <1>1 DEF GrantRequests
<1>3. Ledger(r)'
  BY <1>1, <1>2 DEF Ledger, Ledgers
<1>4. SameDebt(r)
  BY <1>1 DEF SameDebt, InDebt, Debt, Redeeming, Ledgers, Ledger
<1>5. (r \in Used' <=> r \in Used) /\ (r \in Served' <=> r \in Served)
  BY <1>1, <1>2 DEF Used, Served
<1>6. CASE UNCHANGED tokens
  <2>1. \A q \in Request : HasMinted(q, "refresh")' <=> HasMinted(q, "refresh")
    BY <1>6 DEF HasMinted
  <2>2. OthersStay(r) /\ SameStanding(r) /\ UNCHANGED <<Started, Grants>>
    BY <1>1, <1>5, <1>6, <2>1
       DEF OthersStay, SameStanding, Returned, Started, Grants, Redeemable, Live
  <2> QED
    BY <1>3, <1>4, <2>2, SeenIfSameDebt
<1>7. CASE ~UNCHANGED tokens
  <2>1. PICK t \in Token, reason \in {"consumed", "dropped"} : Live(t) /\ Remove(t, reason)
    <3>1. CASE ConsumeOrphan(r)
      <4>1. Redeemed(r) \in Token
        BY <3>1, GrantsAreTokens DEF ConsumeOrphan, Ledgers, Sessions
      <4> QED
        BY <3>1, <4>1 DEF ConsumeOrphan, Finds
    <3>2. CASE DropAccessToken(r)
      BY <1>7, <3>2 DEF DropAccessToken, AccessTokensOf
    <3>3. CASE DiscardCode(r)
      <4>1. Discarded(r) \in Token
        BY <3>3, GrantsAreTokens DEF DiscardCode, Ledgers, Sessions
      <4> QED
        BY <3>3, <4>1 DEF DiscardCode, Finds
    <3> QED
      BY <3>1, <3>2, <3>3
  <2>2. reason \in TokenState \ {"unused", "live"}
    BY DEF TokenState
  <2> QED
    BY <1>1, <1>3, <1>4, <1>5, <2>1, <2>2, RemoveSeen
<1> QED
  BY <1>6, <1>7

(* The steps of a revocation.                                              *)
LEMMA FindSeen ==
  ASSUME Ledgers, Sessions', NEW r \in Request, FindAccessToken(r)
  PROVE  Seen
<1>1. /\ UNCHANGED <<tokens, payload>>
      /\ \A q \in Request \ {r} :
           work'[q] = work[q] /\ pc'[q] = pc[q] /\ pending'[q] = pending[q]
      /\ pc[r] = "find" /\ pc'[r] = "delete" /\ pending[r] = {}
      /\ "refresh" \notin pending'[r]
      /\ r \notin GrantRequests
  BY DEF FindAccessToken, Goto, Ledgers, Ledger, Sessions, Shape, TypeOK, Bookkeeping,
         HoldsItsData
<1>2. GrantRequests' = GrantRequests
  BY <1>1 DEF GrantRequests
<1>3. \A q \in Request : HasMinted(q, "refresh")' <=> HasMinted(q, "refresh")
  BY <1>1 DEF HasMinted
<1>4. Ledger(r)' /\ ~InDebt(r) /\ ~InDebt(r)'
  BY <1>1, <1>2 DEF Ledger, InDebt, Redeeming
<1>5. OthersStay(r) /\ SameStanding(r) /\ UNCHANGED <<Started, Grants>>
  BY <1>1, <1>2, <1>3
     DEF OthersStay, SameStanding, Used, Returned, Served, Started, Grants, Redeemable, Live
<1> QED
  BY <1>4, <1>5, SeenIfSameDebt DEF SameDebt

LEMMA DeleteSeen ==
  ASSUME Ledgers, Sessions', NEW r \in Request, DeleteToken(r) \/ DeleteAccessToken(r)
  PROVE  Seen
<1>1. PICK write \in {"token", "victim"}, t \in Token : Delete(r, write, t)
  BY DEF DeleteToken, DeleteAccessToken, Delete, Applied, Ledgers, Sessions, Shape,
         Bookkeeping, HoldsItsData, Payload
<1>2. /\ UNCHANGED <<pc, payload, work>>
      /\ \A q \in Request \ {r} : pending'[q] = pending[q]
      /\ pending'[r] = pending[r] \ {write} /\ write \in pending[r]
  BY <1>1 DEF Delete, Applied, Ledgers, Sessions, Shape, TypeOK
<1>3. GrantRequests' = GrantRequests
  BY <1>2 DEF GrantRequests
<1>4. (HasMinted(r, "refresh")' <=> HasMinted(r, "refresh")) => Ledger(r)'
  BY <1>2, <1>3 DEF Ledger, Ledgers
<1>5. SameDebt(r)
  BY <1>2 DEF SameDebt, InDebt, Debt, Redeeming
<1>6. (r \in Used' <=> r \in Used) /\ (r \in Served' <=> r \in Served)
  BY <1>2, <1>3 DEF Used, Served
<1>7. CASE UNCHANGED tokens
  <2>1. \A q \in Request : HasMinted(q, "refresh")' <=> HasMinted(q, "refresh")
    BY <1>7 DEF HasMinted
  <2>2. OthersStay(r) /\ SameStanding(r) /\ UNCHANGED <<Started, Grants>>
    BY <1>2, <1>6, <1>7, <2>1
       DEF OthersStay, SameStanding, Returned, Started, Grants, Redeemable, Live
  <2> QED
    BY <1>4, <1>5, <2>1, <2>2, SeenIfSameDebt
<1>8. CASE Live(t) /\ Remove(t, "revoked")
  <2>1. "revoked" \in TokenState \ {"unused", "live"}
    BY DEF TokenState
  <2> QED
    BY <1>2, <1>4, <1>5, <1>6, <1>8, <2>1, RemoveSeen
<1> QED
  BY <1>1, <1>7, <1>8 DEF Delete

LEMMA ProceedSeen ==
  ASSUME Ledgers, Sessions', NEW r \in Request, Proceed(r)
  PROVE  Seen
<1>1. Respond(r) => pc[r] \in {"mint", "delete"}
  BY DEF Respond
<1> QED
  BY <1>1, PassSeen, ServeSeen, TakeSeen, MintSeen, DropSeen, FindSeen, DeleteSeen
     DEF Proceed

LEMMA StutterSeen ==
  ASSUME Ledgers, Sessions', UNCHANGED vars
  PROVE  Seen
<1>1. \A q \in Request : HasMinted(q, "refresh")' <=> HasMinted(q, "refresh")
  BY DEF HasMinted, vars
<1>2. UNCHANGED <<Started, Grants>>
  BY DEF Started, Grants, Redeemable, Live, vars
<1> QED
  BY <1>1, <1>2, SameLedger, SeenIfSame DEF vars

LEMMA StepSeen == Ledgers /\ [Next]_vars => Seen
<1> SUFFICES ASSUME Ledgers, [Next]_vars
             PROVE  Seen
  OBVIOUS
<1>1. Sessions'
  BY StepSessions DEF Ledgers
<1> QED
  BY <1>1, IssueSeen, ReceiveSeen, ProceedSeen, DisturbSeen, StutterSeen DEF Next

(* The token store keeps what GrantChain promises, for any number of       *)
(* requests that race, fail or crash: one grant of a chain at a time, each *)
(* request continues one chain at most, also if it deletes the grants of   *)
(* two, and is served after it has returned the next grant, and a chain    *)
(* that has lost its grant stays over.                                     *)
THEOREM TokensImplementChain == Spec => ChainPromise
<1>1. Ledgers /\ [Next]_vars => Ledgers' /\ [Chain!Next]_Chain!vars
  BY StepSeen DEF Seen
<1> QED
  BY <1>1, InitLedgers, InitRefines, PTL DEF Spec, ChainPromise, Chain!Spec

=============================================================================
