------------------------------ MODULE ServerProofs ------------------------------
(***************************************************************************)
(* Theorems about Server, for any number of requests and failures: what    *)
(* the handlers have in common, and what follows for the connection that   *)
(* they share.                                                             *)
(***************************************************************************)
EXTENDS Server, SequenceTheorems, TLAPS

(* The endpoints whose handlers query where no finally block is around     *)
(* them, and what the finally blocks of a handler may do.                  *)
Leaky == {"authorization", "login", "consent", "jwks"}
Cleanups(e) == IF e = "userinfo" THEN {"close", "release"} ELSE {"close"}

(* Where a handler is: the finally blocks around it, and whether it has    *)
(* not connected yet, has connected, or has closed the connection.         *)
Phase == {"fresh", "open", "closed"}
Place(e) == [stack : Seq(Cleanups(e)), phase : Phase]
Spot(stack, phase) == [stack |-> stack, phase |-> phase]

(* A connection that nothing closes when the next call throws.             *)
Exposed(s) == s.stack = <<>> /\ s.phase = "open"
ClosesOnThrow(s) == s.stack = <<>> \/ Head(s.stack) = "close" \/ s.phase = "closed"

(* From where to where a call of the handler of e may lead.                *)
Moves(call, s, t, e) ==
  \/ /\ call = "try" /\ ~Exposed(s)
     /\ t = Spot(<<"close">> \o s.stack, s.phase)
  \/ /\ call = "try_release" /\ ~Exposed(s) /\ e = "userinfo"
     /\ t = Spot(<<"release">> \o s.stack, s.phase)
  \/ /\ call = "end" /\ s.stack # <<>> /\ ClosesOnThrow(s)
     /\ t = Spot(Tail(s.stack), "closed")
  \/ call = "connect" /\ t = Spot(s.stack, "open")
  \/ call = "query" /\ s.phase = "open" /\ (s.stack = <<>> => e \in Leaky) /\ t = s
  \/ call = "check" /\ ~Exposed(s) /\ ClosesOnThrow(s) /\ t = s
  \/ call = "close" /\ t = Spot(s.stack, "closed")
  \/ call = "release" /\ e = "userinfo" /\ s.phase = "closed" /\ t = s

(* Calls p lead from s to t.                                               *)
Walk(p, s, t, e) ==
  /\ p \in Seq(Call)
  /\ \E d \in [0..Len(p) -> Place(e)] :
       /\ d[0] = s /\ d[Len(p)] = t
       /\ \A i \in 1..Len(p) : Moves(p[i], d[i - 1], d[i], e)

-----------------------------------------------------------------------------
LEMMA Push ==
  ASSUME NEW S, NEW c \in S, NEW seq \in Seq(S)
  PROVE  /\ <<c>> \o seq \in Seq(S) /\ <<c>> \o seq # <<>>
         /\ Head(<<c>> \o seq) = c /\ Tail(<<c>> \o seq) = seq
<1> DEFINE p == <<c>> \o seq
<1>1. <<c>> \in Seq(S) /\ Len(<<c>>) = 1 /\ <<c>>[1] = c
  OBVIOUS
<1>2. Len(seq) \in Nat
  OBVIOUS
<1>3. /\ p \in Seq(S) /\ Len(p) = 1 + Len(seq)
      /\ \A i \in 1..(1 + Len(seq)) : p[i] = IF i <= 1 THEN <<c>>[i] ELSE seq[i - 1]
  BY <1>1, ConcatProperties
<1> HIDE DEF p
<1>4. p # <<>> /\ Head(p) = c
  BY <1>1, <1>2, <1>3
<1>5. /\ Tail(p) \in Seq(S) /\ Len(Tail(p)) = Len(seq)
      /\ \A i \in 1..Len(seq) : Tail(p)[i] = p[i + 1]
  BY <1>2, <1>3, <1>4
<1>6. \A i \in 1..Len(seq) : Tail(p)[i] = seq[i]
  BY <1>2, <1>3, <1>5
<1>7. Tail(p) = seq
  BY <1>5, <1>6, SeqEqual
<1> QED
  BY <1>3, <1>4, <1>7 DEF p

(* Walks are put together, and taken apart, one call after the other.      *)
LEMMA WalkNowhere ==
  ASSUME NEW e, NEW s, NEW t, Walk(<<>>, s, t, e)
  PROVE  s = t
BY DEF Walk

LEMMA WalkStays ==
  ASSUME NEW e, NEW s \in Place(e), NEW p \in Seq(Call),
         \A i \in 1..Len(p) : Moves(p[i], s, s, e)
  PROVE  Walk(p, s, s, e)
<1> DEFINE d == [i \in 0..Len(p) |-> s]
<1>1. d \in [0..Len(p) -> Place(e)] /\ d[0] = s /\ d[Len(p)] = s
  OBVIOUS
<1>2. \A i \in 1..Len(p) : i - 1 \in 0..Len(p) /\ i \in 0..Len(p)
  OBVIOUS
<1>3. \A i \in 1..Len(p) : Moves(p[i], d[i - 1], d[i], e)
  BY <1>2
<1> QED
  BY <1>1, <1>3 DEF Walk

LEMMA WalkNone ==
  ASSUME NEW e, NEW s \in Place(e)
  PROVE  Walk(<<>>, s, s, e)
<1>1. <<>> \in Seq(Call) /\ \A i \in 1..Len(<<>>) : Moves(<<>>[i], s, s, e)
  OBVIOUS
<1> QED
  BY <1>1, WalkStays

LEMMA WalkOne ==
  ASSUME NEW e, NEW s \in Place(e), NEW t \in Place(e), NEW c \in Call, Moves(c, s, t, e)
  PROVE  Walk(<<c>>, s, t, e)
<1> DEFINE d == [i \in 0..1 |-> IF i = 0 THEN s ELSE t]
<1>1. <<c>> \in Seq(Call) /\ Len(<<c>>) = 1 /\ <<c>>[1] = c
  OBVIOUS
<1>2. d \in [0..1 -> Place(e)] /\ d[0] = s /\ d[1] = t
  OBVIOUS
<1>3. \A i \in 1..1 : Moves(<<c>>[i], d[i - 1], d[i], e)
  BY <1>1, <1>2
<1> QED
  BY <1>1, <1>2, <1>3 DEF Walk

LEMMA WalkJoins ==
  ASSUME NEW e, NEW s, NEW t, NEW u, NEW p, NEW q, Walk(p, s, t, e), Walk(q, t, u, e)
  PROVE  Walk(p \o q, s, u, e)
<1>1. p \in Seq(Call) /\ q \in Seq(Call)
  BY DEF Walk
<1>2. PICK f \in [0..Len(p) -> Place(e)] :
        /\ f[0] = s /\ f[Len(p)] = t
        /\ \A i \in 1..Len(p) : Moves(p[i], f[i - 1], f[i], e)
  BY DEF Walk
<1>3. PICK g \in [0..Len(q) -> Place(e)] :
        /\ g[0] = t /\ g[Len(q)] = u
        /\ \A i \in 1..Len(q) : Moves(q[i], g[i - 1], g[i], e)
  BY DEF Walk
<1> DEFINE n == Len(p)
           m == Len(q)
           d == [i \in 0..(n + m) |-> IF i <= n THEN f[i] ELSE g[i - n]]
<1>4. /\ p \o q \in Seq(Call) /\ Len(p \o q) = n + m
      /\ \A i \in 1..(n + m) : (p \o q)[i] = IF i <= n THEN p[i] ELSE q[i - n]
  BY <1>1, ConcatProperties
<1>5. n \in Nat /\ m \in Nat
  BY <1>1
<1> HIDE DEF n, m
<1>6. d \in [0..(n + m) -> Place(e)]
  <2>1. ASSUME NEW i \in 0..(n + m) PROVE (IF i <= n THEN f[i] ELSE g[i - n]) \in Place(e)
    <3>1. i <= n => i \in 0..n
      BY <1>5
    <3>2. ~(i <= n) => i - n \in 0..m
      BY <1>5
    <3> QED
      BY <1>2, <1>3, <3>1, <3>2 DEF n, m
  <2> QED
    BY <2>1
<1>7. d[0] = s
  BY <1>2, <1>5
<1>8. d[n + m] = u
  <2>1. CASE m = 0
    BY <2>1, <1>2, <1>3, <1>5 DEF n, m
  <2>2. CASE m # 0
    <3>1. ~(n + m <= n) /\ (n + m) - n = m /\ n + m \in 0..(n + m)
      BY <2>2, <1>5
    <3> QED
      BY <3>1, <1>3 DEF m
  <2> QED
    BY <2>1, <2>2
<1>9. ASSUME NEW i \in 1..(n + m) PROVE Moves((p \o q)[i], d[i - 1], d[i], e)
  <2>1. i \in 0..(n + m) /\ i - 1 \in 0..(n + m)
    BY <1>5
  <2>2. CASE i <= n
    <3>1. i \in 1..n /\ i - 1 <= n
      BY <2>2, <1>5
    <3>2. d[i] = f[i] /\ d[i - 1] = f[i - 1] /\ (p \o q)[i] = p[i]
      BY <3>1, <2>1, <2>2, <1>4
    <3> QED
      BY <3>1, <3>2, <1>2 DEF n
  <2>3. CASE i = n + 1
    <3>1. 1 \in 1..m /\ ~(i <= n) /\ i - n = 1 /\ i - 1 = n /\ n <= n
      BY <2>3, <1>5
    <3>2. d[i] = g[1] /\ d[i - 1] = f[n] /\ (p \o q)[i] = q[1]
      BY <3>1, <2>1, <1>4
    <3>3. f[n] = g[1 - 1]
      BY <1>2, <1>3 DEF n
    <3> QED
      BY <3>1, <3>2, <3>3, <1>3 DEF m
  <2>4. CASE i > n + 1
    <3>1. i - n \in 1..m /\ ~(i <= n) /\ ~(i - 1 <= n) /\ (i - 1) - n = (i - n) - 1
      BY <2>4, <1>5
    <3>2. d[i] = g[i - n] /\ d[i - 1] = g[(i - n) - 1] /\ (p \o q)[i] = q[i - n]
      BY <3>1, <2>1, <1>4
    <3> QED
      BY <3>1, <3>2, <1>3 DEF m
  <2>5. i <= n \/ i = n + 1 \/ i > n + 1
    BY <1>5
  <2> QED
    BY <2>2, <2>3, <2>4, <2>5
<1> QED
  BY <1>4, <1>6, <1>7, <1>8, <1>9 DEF Walk

LEMMA WalkStarts ==
  ASSUME NEW e, NEW s, NEW t, NEW p, Walk(p, s, t, e), p # <<>>
  PROVE  /\ Head(p) \in Call
         /\ \E u \in Place(e) : Moves(Head(p), s, u, e) /\ Walk(Tail(p), u, t, e)
<1>1. PICK f \in [0..Len(p) -> Place(e)] :
        /\ f[0] = s /\ f[Len(p)] = t
        /\ \A i \in 1..Len(p) : Moves(p[i], f[i - 1], f[i], e)
  BY DEF Walk
<1>2. p \in Seq(Call) /\ Len(p) \in Nat /\ Len(p) >= 1
  BY EmptySeq DEF Walk
<1>3. /\ Tail(p) \in Seq(Call) /\ Len(Tail(p)) = Len(p) - 1
      /\ \A i \in 1..(Len(p) - 1) : Tail(p)[i] = p[i + 1]
      /\ Head(p) = p[1] /\ p[1] \in Call
  BY <1>2
<1> DEFINE n == Len(p) - 1
           d == [i \in 0..n |-> f[i + 1]]
<1>4. n \in Nat /\ Len(p) = n + 1
  BY <1>2
<1> HIDE DEF n
<1>5. d \in [0..n -> Place(e)]
  BY <1>1, <1>4
<1>6. d[0] = f[1] /\ d[n] = t
  BY <1>1, <1>4
<1>7. ASSUME NEW i \in 1..n PROVE Moves(Tail(p)[i], d[i - 1], d[i], e)
  <2>1. i + 1 \in 1..Len(p) /\ (i + 1) - 1 = (i - 1) + 1 /\ i \in 0..n /\ i - 1 \in 0..n
    BY <1>4
  <2>2. d[i] = f[i + 1] /\ d[i - 1] = f[(i + 1) - 1] /\ Tail(p)[i] = p[i + 1]
    BY <2>1, <1>3 DEF n
  <2> QED
    BY <1>1, <2>1, <2>2
<1>8. Walk(Tail(p), f[1], t, e)
  <2>1. Len(Tail(p)) = n
    BY <1>3 DEF n
  <2> QED
    BY <1>3, <1>5, <1>6, <1>7, <2>1 DEF Walk
<1>9. Moves(Head(p), s, f[1], e) /\ f[1] \in Place(e)
  BY <1>1, <1>2, <1>3
<1> QED
  BY <1>3, <1>8, <1>9

-----------------------------------------------------------------------------
(* A piece of a handler leaves the finally blocks as it found them, and    *)
(* the connection not exposed, nor open where it had been closed.          *)
Keeps(s, t) ==
  t.stack = s.stack /\ ~Exposed(t) /\ (s.phase = "closed" => t.phase = "closed")

Steady(p, stack, e) ==
  \A s \in Place(e) : s.stack = stack /\ ~Exposed(s) =>
    \E t \in Place(e) : Keeps(s, t) /\ Walk(p, s, t, e)

LEMMA SpotPlace ==
  ASSUME NEW e, NEW stack \in Seq(Cleanups(e)), NEW phase \in Phase
  PROVE  /\ Spot(stack, phase) \in Place(e)
         /\ Spot(stack, phase).stack = stack /\ Spot(stack, phase).phase = phase
BY DEF Spot, Place

LEMMA SteadyJoins ==
  ASSUME NEW e, NEW stack, NEW p, NEW q, Steady(p, stack, e), Steady(q, stack, e)
  PROVE  Steady(p \o q, stack, e)
<1> SUFFICES ASSUME NEW s \in Place(e), s.stack = stack, ~Exposed(s)
             PROVE  \E t \in Place(e) : Keeps(s, t) /\ Walk(p \o q, s, t, e)
  BY DEF Steady
<1>1. PICK t \in Place(e) : Keeps(s, t) /\ Walk(p, s, t, e)
  BY DEF Steady
<1>2. PICK u \in Place(e) : Keeps(t, u) /\ Walk(q, t, u, e)
  BY <1>1 DEF Steady, Keeps
<1>3. Keeps(s, u)
  BY <1>1, <1>2 DEF Keeps
<1> QED
  BY <1>1, <1>2, <1>3, WalkJoins

LEMMA SteadyThen ==
  ASSUME NEW e, NEW stack, NEW h, NEW g,
         \A p \in h : Steady(p, stack, e), \A p \in g : Steady(p, stack, e)
  PROVE  \A p \in Then(h, g) : Steady(p, stack, e)
<1> TAKE p \in Then(h, g)
<1>1. PICK a \in h, b \in g : p = a \o b
  BY DEF Then
<1> QED
  BY <1>1, SteadyJoins

LEMMA SteadyNone ==
  ASSUME NEW e, NEW stack
  PROVE  Steady(<<>>, stack, e)
BY WalkNone DEF Steady, Keeps

(* Code that may throw where nothing is to be released.                    *)
LEMMA SteadyCheck ==
  ASSUME NEW e
  PROVE  Steady(<<"check">>, <<>>, e)
BY WalkOne DEF Steady, Keeps, Moves, ClosesOnThrow, Call

(* The beginning, the body and the end of a section.                       *)
Body == Seq({"query", "check"})

LEMMA WalkBody ==
  ASSUME NEW e, NEW s \in Place(e), s.phase = "open", s.stack # <<>>, Head(s.stack) = "close",
         NEW body \in Body
  PROVE  Walk(body, s, s, e)
<1>1. body \in Seq(Call)
  BY SeqMonotonic DEF Body, Call
<1>2. ASSUME NEW i \in 1..Len(body) PROVE Moves(body[i], s, s, e)
  <2>1. body[i] \in {"query", "check"}
    BY DEF Body
  <2> QED
    BY <2>1 DEF Moves, Exposed, ClosesOnThrow
<1> QED
  BY <1>1, <1>2, WalkStays

LEMMA WalkTwo ==
  ASSUME NEW e, NEW s \in Place(e), NEW t \in Place(e), NEW u \in Place(e),
         NEW b \in Call, NEW c \in Call, Moves(b, s, t, e), Moves(c, t, u, e)
  PROVE  Walk(<<b, c>>, s, u, e)
<1>1. <<b, c>> = <<b>> \o <<c>>
  <2>1. <<b>> \in Seq(Call) /\ <<c>> \in Seq(Call) /\ <<b, c>> \in Seq(Call)
    OBVIOUS
  <2>2. Len(<<b>> \o <<c>>) = 2 /\ (<<b>> \o <<c>>)[1] = b /\ (<<b>> \o <<c>>)[2] = c
    BY <2>1, ConcatProperties
  <2>3. <<b>> \o <<c>> \in Seq(Call)
    BY <2>1, ConcatProperties
  <2>4. Len(<<b, c>>) = 2 /\ <<b, c>>[1] = b /\ <<b, c>>[2] = c
    OBVIOUS
  <2> HIDE DEF Call
  <2>5. \A i \in 1..2 : i = 1 \/ i = 2
    OBVIOUS
  <2> QED
    BY <2>1, <2>2, <2>3, <2>4, <2>5, SeqEqual
<1> QED
  BY <1>1, WalkOne, WalkJoins

LEMMA Within ==
  ASSUME NEW e, NEW stack \in Seq(Cleanups(e))
  PROVE  /\ <<"close">> \o stack \in Seq(Cleanups(e)) /\ <<"close">> \o stack # <<>>
         /\ Head(<<"close">> \o stack) = "close" /\ Tail(<<"close">> \o stack) = stack
BY Push DEF Cleanups

LEMMA WalkEnter ==
  ASSUME NEW e, NEW s \in Place(e), ~Exposed(s)
  PROVE  Walk(<<"try", "connect">>, s, Spot(<<"close">> \o s.stack, "open"), e)
<1> DEFINE in == <<"close">> \o s.stack
<1>1. s.stack \in Seq(Cleanups(e)) /\ s.phase \in Phase
  BY DEF Place
<1>2. in \in Seq(Cleanups(e)) /\ "open" \in Phase
  BY <1>1, Within DEF Phase
<1>3. /\ Spot(in, s.phase) \in Place(e) /\ Spot(in, s.phase).stack = in
      /\ Spot(in, "open") \in Place(e)
  <2> HIDE DEF in
  <2> QED
    BY <1>1, <1>2, SpotPlace
<1>4. Moves("try", s, Spot(in, s.phase), e) /\ Moves("connect", Spot(in, s.phase), Spot(in, "open"), e)
  BY <1>3 DEF Moves
<1> QED
  BY <1>3, <1>4, WalkTwo DEF Call

LEMMA WalkLeave ==
  ASSUME NEW e, NEW stack \in Seq(Cleanups(e)), NEW phase \in Phase
  PROVE  Walk(<<"end">>, Spot(<<"close">> \o stack, phase), Spot(stack, "closed"), e)
<1>1. /\ Spot(<<"close">> \o stack, phase) \in Place(e) /\ Spot(stack, "closed") \in Place(e)
      /\ Spot(<<"close">> \o stack, phase).stack = <<"close">> \o stack
  <2>1. <<"close">> \o stack \in Seq(Cleanups(e))
    BY Within
  <2>2. "closed" \in Phase
    BY DEF Phase
  <2> QED
    BY <2>1, <2>2, SpotPlace
<1>2. Moves("end", Spot(<<"close">> \o stack, phase), Spot(stack, "closed"), e)
  BY <1>1, Within DEF Moves, ClosesOnThrow
<1> QED
  BY <1>1, <1>2, WalkOne DEF Call

LEMMA SteadySection ==
  ASSUME NEW e, NEW stack \in Seq(Cleanups(e)), NEW body \in Body
  PROVE  Steady(Section(body), stack, e)
<1> SUFFICES ASSUME NEW s \in Place(e), s.stack = stack, ~Exposed(s)
             PROVE  \E t \in Place(e) : Keeps(s, t) /\ Walk(Section(body), s, t, e)
  BY DEF Steady
<1> DEFINE in == Spot(<<"close">> \o stack, "open")
<1>1. /\ in \in Place(e) /\ in.stack = <<"close">> \o stack /\ in.phase = "open"
      /\ Spot(stack, "closed") \in Place(e) /\ Spot(stack, "closed").stack = stack
      /\ Spot(stack, "closed").phase = "closed"
  <2>1. <<"close">> \o stack \in Seq(Cleanups(e))
    BY Within
  <2>2. "open" \in Phase /\ "closed" \in Phase
    BY DEF Phase
  <2>3. \A st \in Seq(Cleanups(e)) :
          /\ Spot(st, "open") \in Place(e)
          /\ Spot(st, "open").stack = st /\ Spot(st, "open").phase = "open"
    BY <2>2, SpotPlace
  <2>4. /\ Spot(stack, "closed") \in Place(e) /\ Spot(stack, "closed").stack = stack
        /\ Spot(stack, "closed").phase = "closed"
    BY <2>2, SpotPlace
  <2> QED
    BY <2>1, <2>3, <2>4, Zenon
<1>2. Walk(<<"try", "connect">>, s, in, e)
  BY WalkEnter
<1>3. Walk(body, in, in, e)
  BY <1>1, Within, WalkBody
<1>4. Walk(<<"end">>, in, Spot(stack, "closed"), e)
  BY WalkLeave DEF Phase
<1> HIDE DEF in
<1>5. Walk(Section(body), s, Spot(stack, "closed"), e)
  BY <1>2, <1>3, <1>4, WalkJoins DEF Section
<1>6. Keeps(s, Spot(stack, "closed"))
  BY <1>1 DEF Keeps, Exposed
<1> QED
  BY <1>1, <1>5, <1>6

(* Keys are loaded and stored without a finally block: within one of the   *)
(* caller, or where the connection may be left open.                       *)
LEMMA SteadyKeyDocument ==
  ASSUME NEW e, NEW stack \in Seq(Cleanups(e)), stack = <<>> => e \in Leaky
  PROVE  Steady(KeyDocument, stack, e)
<1> SUFFICES ASSUME NEW s \in Place(e), s.stack = stack, ~Exposed(s)
             PROVE  \E t \in Place(e) : Keeps(s, t) /\ Walk(KeyDocument, s, t, e)
  BY DEF Steady
<1> DEFINE u == Spot(stack, "open")
           t == Spot(stack, "closed")
<1>1. /\ u \in Place(e) /\ u.stack = stack /\ u.phase = "open"
      /\ t \in Place(e) /\ t.stack = stack /\ t.phase = "closed"
  BY SpotPlace DEF Phase
<1>2. Moves("connect", s, u, e) /\ Moves("query", u, u, e) /\ Moves("close", u, t, e)
  BY <1>1 DEF Moves
<1> HIDE DEF u, t
<1>3. Walk(<<"connect", "query">>, s, u, e) /\ Walk(<<"close">>, u, t, e)
  BY <1>1, <1>2, WalkTwo, WalkOne DEF Call
<1>4. KeyDocument = <<"connect", "query">> \o <<"close">>
  BY DEF KeyDocument
<1>5. Walk(KeyDocument, s, t, e)
  BY <1>3, <1>4, WalkJoins
<1>6. Keeps(s, t)
  BY <1>1 DEF Keeps, Exposed
<1> QED
  BY <1>1, <1>5, <1>6

LEMMA SteadyKeys ==
  ASSUME NEW e, NEW stack \in Seq(Cleanups(e)), stack = <<>> => e \in Leaky
  PROVE  \A p \in GetKeys : Steady(p, stack, e)
BY SteadyNone, SteadyKeyDocument, SteadyJoins DEF GetKeys

LEMMA SteadyUserData ==
  ASSUME NEW e, NEW stack \in Seq(Cleanups(e))
  PROVE  \A p \in FetchUserData : Steady(p, stack, e)
<1>1. <<"query", "check">> \in Body
  BY DEF Body
<1> QED
  BY <1>1, SteadyNone, SteadySection DEF FetchUserData

-----------------------------------------------------------------------------
(* Stages of handlers.                                                     *)
LEMMA Beginning ==
  ASSUME NEW e
  PROVE  /\ <<>> \in Seq(Cleanups(e))
         /\ Spot(<<>>, "fresh") \in Place(e) /\ Spot(<<>>, "fresh").stack = <<>>
         /\ ~Exposed(Spot(<<>>, "fresh"))
<1>1. <<>> \in Seq(Cleanups(e)) /\ "fresh" \in Phase
  BY DEF Phase
<1>2. /\ Spot(<<>>, "fresh") \in Place(e)
      /\ Spot(<<>>, "fresh").stack = <<>> /\ Spot(<<>>, "fresh").phase = "fresh"
  BY <1>1, SpotPlace
<1>3. ~Exposed(Spot(<<>>, "fresh"))
  BY <1>2 DEF Exposed
<1> QED
  BY <1>1, <1>2, <1>3

LEMMA Bodies ==
  /\ <<>> \in Body /\ <<"query">> \in Body /\ <<"query", "query">> \in Body
  /\ <<"query", "check">> \in Body /\ <<"query", "check", "query">> \in Body
  /\ <<"query", "check", "query", "check">> \in Body
BY DEF Body

LEMMA SteadyValidateToken ==
  ASSUME NEW e
  PROVE  \A p \in ValidateToken : Steady(p, <<>>, e)
<1>1. Steady(Section(<<"query">>), <<>>, e) /\ Steady(Section(<<"query", "query">>), <<>>, e)
  BY Bodies, Beginning, SteadySection
<1>2. Steady(Section(<<"query">>) \o <<"check">>, <<>>, e)
  BY <1>1, SteadyCheck, SteadyJoins
<1>3. Steady(Section(<<"query">>) \o <<"check">> \o Section(<<"query", "query">>), <<>>, e)
  BY <1>1, <1>2, SteadyJoins
<1>4. Steady(Section(<<"query">>) \o <<"check">> \o Section(<<"query", "query">>) \o <<"check">>, <<>>, e)
  BY <1>3, SteadyCheck, SteadyJoins
<1> QED
  BY <1>4 DEF ValidateToken

(* The tokens are granted in one section, keys and claims read within it.  *)
LEMMA SteadyGrantTokens ==
  ASSUME NEW e
  PROVE  \A p \in GrantTokens : Steady(p, <<>>, e)
<1> SUFFICES ASSUME NEW sign \in Sign, NEW s \in Place(e), s.stack = <<>>, ~Exposed(s)
             PROVE  \E t \in Place(e) :
                      /\ Keeps(s, t)
                      /\ Walk(<<"try", "connect", "query", "check", "query">> \o sign \o <<"end">>, s, t, e)
  BY DEF GrantTokens, Steady
<1> DEFINE stack == <<"close">> \o <<>>
           in == Spot(stack, "open")
           t == Spot(<<>>, "closed")
<1>1. stack \in Seq(Cleanups(e)) /\ stack # <<>> /\ Head(stack) = "close"
  BY Within, Beginning
<1>2. in \in Place(e) /\ in.stack = stack /\ in.phase = "open" /\ ~Exposed(in)
  <2>1. "open" \in Phase
    BY DEF Phase
  <2>2. /\ Spot(stack, "open") \in Place(e) /\ Spot(stack, "open").stack = stack
        /\ Spot(stack, "open").phase = "open"
    <3> HIDE DEF stack
    <3> QED
      BY <1>1, <2>1, SpotPlace
  <2>3. ~Exposed(Spot(stack, "open"))
    <3> HIDE DEF stack
    <3> QED
      BY <1>1, <2>2 DEF Exposed
  <2> QED
    BY <2>2, <2>3
<1>3. t \in Place(e) /\ t.stack = <<>> /\ t.phase = "closed"
  <2>1. "closed" \in Phase
    BY DEF Phase
  <2> QED
    BY <2>1, Beginning, SpotPlace
<1>4. Walk(<<"try", "connect">>, s, in, e)
  BY WalkEnter
<1>5. Walk(<<"query", "check", "query">>, in, in, e)
  BY <1>1, <1>2, Bodies, WalkBody
<1>6. <<"try", "connect", "query", "check", "query">>
        = <<"try", "connect">> \o <<"query", "check", "query">>
  OBVIOUS
<1>7. Steady(sign, stack, e)
  BY <1>1, SteadyKeys, SteadyUserData, SteadyThen DEF Sign
<1>8. ASSUME NEW phase \in Phase PROVE Walk(<<"end">>, Spot(stack, phase), t, e)
  BY Beginning, WalkLeave
<1> HIDE DEF stack, in, t
<1>9. Walk(<<"try", "connect", "query", "check", "query">>, s, in, e)
  BY <1>4, <1>5, <1>6, WalkJoins
<1>10. PICK u \in Place(e) : Keeps(in, u) /\ Walk(sign, in, u, e)
  BY <1>2, <1>7 DEF Steady
<1>11. u = Spot(stack, u.phase) /\ u.phase \in Phase
  BY <1>2, <1>10 DEF Keeps, Place, Spot
<1>12. Walk(<<"end">>, u, t, e)
  BY <1>8, <1>11
<1>13. Walk(<<"try", "connect", "query", "check", "query">> \o sign \o <<"end">>, s, t, e)
  BY <1>9, <1>10, <1>12, WalkJoins
<1>14. Keeps(s, t)
  BY <1>3 DEF Keeps, Exposed
<1> QED
  BY <1>3, <1>13, <1>14

(* getClaims alone releases: what it opens first it closes itself.         *)
LEMMA SteadyClaims ==
  \A p \in GetClaims : Steady(p, <<>>, "userinfo")
<1> DEFINE e == "userinfo"
<1> SUFFICES ASSUME NEW claims \in FetchUserData, NEW s \in Place(e), s.stack = <<>>, ~Exposed(s)
             PROVE  \E t \in Place(e) :
                      /\ Keeps(s, t)
                      /\ Walk(<<"try_release", "connect", "query", "close", "check">> \o claims \o <<"end">>, s, t, e)
  BY DEF GetClaims, Steady
<1> DEFINE stack == <<"release">> \o <<>>
           a == Spot(stack, s.phase)
           b == Spot(stack, "open")
           c == Spot(stack, "closed")
           t == Spot(<<>>, "closed")
<1>1. /\ stack \in Seq(Cleanups(e)) /\ stack # <<>>
      /\ Head(stack) = "release" /\ Tail(stack) = <<>>
  <2>1. "release" \in Cleanups(e)
    BY DEF Cleanups
  <2> QED
    BY <2>1, Beginning, Push
<1>2. /\ a \in Place(e) /\ a.stack = stack
      /\ b \in Place(e) /\ b.stack = stack /\ b.phase = "open"
      /\ c \in Place(e) /\ c.stack = stack /\ c.phase = "closed"
      /\ t \in Place(e) /\ t.stack = <<>> /\ t.phase = "closed"
  <2>1. "open" \in Phase /\ "closed" \in Phase /\ s.phase \in Phase
    BY DEF Phase, Place
  <2> HIDE DEF stack
  <2>2. a \in Place(e) /\ a.stack = stack
    BY <1>1, <2>1, SpotPlace
  <2>3. b \in Place(e) /\ b.stack = stack /\ b.phase = "open"
    BY <1>1, <2>1, SpotPlace
  <2>4. c \in Place(e) /\ c.stack = stack /\ c.phase = "closed"
    BY <1>1, <2>1, SpotPlace
  <2>5. t \in Place(e) /\ t.stack = <<>> /\ t.phase = "closed"
    BY <2>1, Beginning, SpotPlace
  <2> QED
    BY <2>2, <2>3, <2>4, <2>5
<1>3. Moves("try_release", s, a, e) /\ Moves("connect", a, b, e)
  BY <1>2 DEF Moves
<1> HIDE DEF a
<1>4. Moves("query", b, b, e) /\ Moves("close", b, c, e)
  BY <1>1, <1>2 DEF Moves
<1>5. Moves("check", c, c, e) /\ Moves("end", c, t, e)
  BY <1>1, <1>2 DEF Moves, Exposed, ClosesOnThrow
<1>6. Steady(claims, stack, e)
  BY <1>1, SteadyUserData
<1>7. c = Spot(stack, "closed")
  OBVIOUS
<1> HIDE DEF stack, b, c, t
<1>8. /\ Walk(<<"try_release", "connect">>, s, b, e) /\ Walk(<<"query", "close">>, b, c, e)
      /\ Walk(<<"check">>, c, c, e) /\ Walk(<<"end">>, c, t, e)
  BY <1>2, <1>3, <1>4, <1>5, WalkTwo, WalkOne DEF Call
<1>9. /\ <<"query", "close", "check">> = <<"query", "close">> \o <<"check">>
      /\ <<"try_release", "connect", "query", "close", "check">>
           = <<"try_release", "connect">> \o <<"query", "close", "check">>
  <2>1. <<"query", "close", "check">> = <<"query", "close">> \o <<"check">>
    OBVIOUS
  <2>2. <<"try_release", "connect", "query", "close", "check">>
          = <<"try_release", "connect">> \o <<"query", "close", "check">>
    OBVIOUS
  <2> QED
    BY <2>1, <2>2, Zenon
<1>10. Walk(<<"try_release", "connect", "query", "close", "check">>, s, c, e)
  BY <1>8, <1>9, WalkJoins
<1>11. PICK u \in Place(e) : Keeps(c, u) /\ Walk(claims, c, u, e)
  BY <1>1, <1>2, <1>6 DEF Steady, Exposed
<1>12. u = c
  BY <1>2, <1>7, <1>11 DEF Keeps, Place, Spot
<1>13. Walk(<<"try_release", "connect", "query", "close", "check">> \o claims \o <<"end">>, s, t, e)
  BY <1>8, <1>10, <1>11, <1>12, WalkJoins
<1>14. Keeps(s, t)
  BY <1>2 DEF Keeps, Exposed
<1> QED
  BY <1>2, <1>13, <1>14

LEMMA SteadyBegin ==
  ASSUME NEW e
  PROVE  \A p \in Begin : Steady(p, <<>>, e)
<1> DEFINE found == {Section(<<"query", "check">>)}
           read == {Section(<<"query", "check">>), Section(<<"query", "check", "query">>)}
           none == {Section(<<>>)}
           first == Then(none, ValidatePrompt)
           later == Then(found, ValidatePrompt)
<1>1. /\ Steady(Section(<<>>), <<>>, e) /\ Steady(Section(<<"query", "check">>), <<>>, e)
      /\ Steady(Section(<<"query", "check", "query">>), <<>>, e)
  BY Bodies, Beginning, SteadySection
<1>2. \A p \in ValidatePrompt : Steady(p, <<>>, e)
  BY <1>1, SteadyCheck DEF ValidatePrompt
<1>3. \A p \in none : Steady(p, <<>>, e)
  BY <1>1
<1>4. \A p \in found : Steady(p, <<>>, e)
  BY <1>1
<1>5. \A p \in read : Steady(p, <<>>, e)
  BY <1>1
<1>6. Begin = Then(first, found) \cup Then(later, read)
  BY DEF Begin
<1> HIDE DEF found, read, none
<1>7. \A p \in first : Steady(p, <<>>, e)
  BY <1>2, <1>3, SteadyThen
<1>8. \A p \in later : Steady(p, <<>>, e)
  BY <1>2, <1>4, SteadyThen
<1> HIDE DEF first, later
<1>9. \A p \in Then(first, found) : Steady(p, <<>>, e)
  BY <1>4, <1>7, SteadyThen
<1>10. \A p \in Then(later, read) : Steady(p, <<>>, e)
  BY <1>5, <1>8, SteadyThen
<1> QED
  BY <1>6, <1>9, <1>10

LEMMA SteadyIssue ==
  ASSUME NEW e
  PROVE  \A p \in Issue : Steady(p, <<>>, e)
<1> DEFINE code == {Section(<<"query">>)}
           token == {<<>>, Section(<<"query">>)}
           idToken == {<<>>} \cup FetchUserData
           rest == Then(token, idToken)
<1>1. Steady(Section(<<"query">>), <<>>, e)
  BY Bodies, Beginning, SteadySection
<1>2. \A p \in FetchUserData : Steady(p, <<>>, e)
  BY Beginning, SteadyUserData
<1>3. \A p \in code : Steady(p, <<>>, e)
  BY <1>1
<1>4. \A p \in token : Steady(p, <<>>, e)
  BY <1>1, SteadyNone
<1>5. \A p \in idToken : Steady(p, <<>>, e)
  BY <1>2, SteadyNone
<1>6. Issue = code \cup Then(token, FetchUserData) \cup Then(code, rest)
  BY DEF Issue
<1> HIDE DEF code, token, idToken
<1>7. \A p \in Then(token, FetchUserData) : Steady(p, <<>>, e)
  BY <1>2, <1>4, SteadyThen
<1>8. \A p \in rest : Steady(p, <<>>, e)
  BY <1>4, <1>5, SteadyThen
<1> HIDE DEF rest
<1>9. \A p \in Then(code, rest) : Steady(p, <<>>, e)
  BY <1>3, <1>8, SteadyThen
<1> QED
  BY <1>3, <1>6, <1>7, <1>9

LEMMA SteadyLogin == \A p \in Login : Steady(p, <<>>, "login")
<1>1. Steady(KeyDocument, <<>>, "login")
  BY Beginning, SteadyKeyDocument DEF Leaky
<1>2. <<"check", "connect", "query", "close", "check">>
        = (<<"check">> \o KeyDocument) \o <<"check">>
  BY DEF KeyDocument
<1> QED
  BY <1>1, <1>2, SteadyCheck, SteadyJoins DEF Login

LEMMA SteadyStages ==
  ASSUME NEW e \in Endpoints, NEW i \in 1..Len(Handler[e]), NEW p \in Handler[e][i]
  PROVE  Steady(p, <<>>, e)
<1>1. e \in DOMAIN Handler
  BY EndpointAssumption
<1>2. e \in Leaky => \A q \in GetKeys : Steady(q, <<>>, e)
  BY Beginning, SteadyKeys
<1>3. CASE e = "token"
  <2>1. \A q \in ValidateGrant : Steady(q, <<>>, e)
    BY Bodies, Beginning, SteadySection DEF ValidateGrant
  <2>2. Handler[e] = <<ValidateGrant, GrantTokens>>
    BY <1>3 DEF Handler
  <2>3. p \in ValidateGrant \/ p \in GrantTokens
    BY <2>2
  <2> QED
    BY <2>1, <2>3, SteadyGrantTokens
<1>4. CASE e = "revocation"
  <2>1. \A q \in Revoke : Steady(q, <<>>, e)
    BY Bodies, Beginning, SteadySection, SteadyNone DEF Revoke
  <2>2. Handler[e] = <<ValidateToken, Revoke>>
    BY <1>4 DEF Handler
  <2>3. p \in ValidateToken \/ p \in Revoke
    BY <2>2
  <2> QED
    BY <2>1, <2>3, SteadyValidateToken
<1>5. CASE e = "introspection"
  <2>1. Handler[e] = <<ValidateToken>>
    BY <1>5 DEF Handler
  <2>2. p \in ValidateToken
    BY <2>1
  <2> QED
    BY <2>2, SteadyValidateToken
<1>6. CASE e = "userinfo"
  <2>1. Handler[e] = <<GetClaims>>
    BY <1>6 DEF Handler
  <2>2. p \in GetClaims
    BY <2>1
  <2> QED
    BY <1>6, <2>2, SteadyClaims
<1>7. CASE e = "authorization"
  <2>1. \A q \in Validate : Steady(q, <<>>, e)
    BY Bodies, Beginning, SteadySection, SteadyCheck, SteadyJoins DEF Validate
  <2>2. Handler[e] = <<GetKeys, Begin, Validate, Issue>>
    BY <1>7 DEF Handler
  <2>3. p \in GetKeys \/ p \in Begin \/ p \in Validate \/ p \in Issue
    BY <2>2
  <2> QED
    BY <1>2, <1>7, <2>1, <2>3, SteadyBegin, SteadyIssue DEF Leaky
<1>8. CASE e = "login"
  <2>1. Handler[e] = <<GetKeys, Login>>
    BY <1>8 DEF Handler
  <2>2. p \in GetKeys \/ p \in Login
    BY <2>1
  <2> QED
    BY <1>2, <1>8, <2>2, SteadyLogin DEF Leaky
<1>9. CASE e = "consent"
  <2>1. \A q \in RecordConsent : Steady(q, <<>>, e)
    BY Bodies, Beginning, SteadySection DEF RecordConsent
  <2>2. Handler[e] = <<GetKeys, RecordConsent>>
    BY <1>9 DEF Handler
  <2>3. p \in GetKeys \/ p \in RecordConsent
    BY <2>2
  <2> QED
    BY <1>2, <1>9, <2>1, <2>3 DEF Leaky
<1>10. CASE e = "jwks"
  <2>1. Handler[e] = <<GetKeys>>
    BY <1>10 DEF Handler
  <2>2. p \in GetKeys
    BY <2>1
  <2> QED
    BY <1>2, <1>10, <2>2 DEF Leaky
<1> QED
  BY <1>1, <1>3, <1>4, <1>5, <1>6, <1>7, <1>8, <1>9, <1>10 DEF Handler

-----------------------------------------------------------------------------
(* Where a request is in its handler.                                      *)
Path(r, phase) ==
  \E t \in Place(endpoint[r]) :
    /\ t.stack = <<>> /\ ~Exposed(t)
    /\ Walk(todo[r], Spot(cleanup[r], phase), t, endpoint[r])

Handling(r) ==
  /\ pc[r] = "idle" =>
       /\ todo[r] = <<>> /\ cleanup[r] = <<>>
       /\ waits[r] = None /\ cause[r] = None /\ met[r] = {}
  /\ pc[r] # "idle" => endpoint[r] \in Endpoints
  /\ waits[r] # None => pc[r] = "running"
  /\ cleanup[r] \in Seq(Cleanups(endpoint[r]))
  /\ cause[r] # None =>
       /\ cleanup[r] = <<>> /\ todo[r] \in Seq(Cleanups(endpoint[r]))
       /\ waits[r] # "connect"
  /\ pc[r] = "running" /\ cause[r] = None => \E phase \in Phase : Path(r, phase)

Handlings == TypeOK /\ \A r \in Request : Handling(r)

LEMMA InitHandlings == Init => Handlings
<1> SUFFICES ASSUME Init PROVE Handlings
  OBVIOUS
<1>1. TypeOK
  <2>1. <<>> \in Seq(Call) /\ <<>> \in Seq({"close", "release"})
    OBVIOUS
  <2>2. \A S : <<>> \in S => [r \in Request |-> <<>>] \in [Request -> S]
    OBVIOUS
  <2>3. todo \in [Request -> Seq(Call)] /\ cleanup \in [Request -> Seq({"close", "release"})]
    BY <2>1, <2>2, Zenon DEF Init
  <2>4. failures \in 0..MaxFailures
    BY BoundAssumption DEF Init
  <2>5. pc \in [Request -> {"idle", "running", "unhandled"} \cup Ended]
    BY DEF Init
  <2> QED
    BY <2>3, <2>4, <2>5 DEF Init, TypeOK
<1>2. ASSUME NEW r \in Request PROVE Handling(r)
  <2>1. <<>> \in Seq(Cleanups(endpoint[r]))
    BY Beginning
  <2> QED
    BY <2>1, NoneAssumption DEF Init, Handling
<1> QED
  BY <1>1, <1>2 DEF Handlings

(* The rest of a walk after its first call.                                *)
LEMMA Advance ==
  ASSUME NEW r \in Request, NEW phase \in Phase, Path(r, phase), todo[r] # <<>>,
         endpoint'[r] = endpoint[r]
  PROVE  \E u \in Place(endpoint[r]) :
           /\ Moves(Head(todo[r]), Spot(cleanup[r], phase), u, endpoint[r])
           /\ \E t \in Place(endpoint[r]) :
                /\ t.stack = <<>> /\ ~Exposed(t)
                /\ Walk(Tail(todo[r]), u, t, endpoint[r])
           /\ todo'[r] = Tail(todo[r]) /\ cleanup'[r] = u.stack => Path(r, u.phase)'
<1>1. PICK t \in Place(endpoint[r]) :
        /\ t.stack = <<>> /\ ~Exposed(t)
        /\ Walk(todo[r], Spot(cleanup[r], phase), t, endpoint[r])
  BY DEF Path
<1>2. PICK u \in Place(endpoint[r]) :
        /\ Moves(Head(todo[r]), Spot(cleanup[r], phase), u, endpoint[r])
        /\ Walk(Tail(todo[r]), u, t, endpoint[r])
  BY <1>1, WalkStarts
<1>3. u = Spot(u.stack, u.phase)
  BY DEF Place, Spot
<1>4. ASSUME todo'[r] = Tail(todo[r]), cleanup'[r] = u.stack
      PROVE  Path(r, u.phase)'
  BY <1>1, <1>2, <1>3, <1>4 DEF Path
<1> QED
  BY <1>1, <1>2, <1>4

LEMMA Arrived ==
  ASSUME NEW r \in Request, pc[r] = "running", cause[r] = None, todo[r] = <<>>,
         NEW phase \in Phase, Path(r, phase)
  PROVE  cleanup[r] = <<>> /\ phase # "open"
BY WalkNowhere DEF Path, Spot, Exposed

(* A request that a step does not move stays where it is.                  *)
LEMMA Untouched ==
  ASSUME NEW q \in Request, Handling(q),
         pc'[q] = pc[q], endpoint'[q] = endpoint[q], todo'[q] = todo[q],
         cleanup'[q] = cleanup[q], cause'[q] = cause[q],
         waits'[q] \in {None, "close", waits[q]}, waits[q] = None => waits'[q] = None,
         pc[q] = "idle" => met'[q] = met[q]
  PROVE  Handling(q)'
<1>1. ASSUME NEW phase, Path(q, phase) PROVE Path(q, phase)'
  BY <1>1 DEF Path
<1> QED
  BY <1>1, NoneAssumption DEF Handling

Alike(q) ==
  /\ pc'[q] = pc[q] /\ endpoint'[q] = endpoint[q] /\ todo'[q] = todo[q]
  /\ cleanup'[q] = cleanup[q] /\ cause'[q] = cause[q] /\ waits'[q] = waits[q]

LEMMA OthersAlike ==
  ASSUME Handlings, NEW r \in Request,
         Handling(r)', TypeOK',
         \A q \in Request \ {r} : Alike(q) /\ (pc[q] = "idle" => met'[q] = met[q])
  PROVE  Handlings'
BY Untouched DEF Handlings, Alike

(* What a request in its handler may do next.                              *)
LEMMA Going ==
  ASSUME Handlings, NEW r \in Request, NEW call, At(r, call), endpoint'[r] = endpoint[r]
  PROVE  /\ call \in Call /\ pc[r] = "running" /\ waits[r] = None /\ todo[r] # <<>>
         /\ cause[r] # None =>
              /\ call \in Cleanups(endpoint[r]) /\ cleanup[r] = <<>>
              /\ Tail(todo[r]) \in Seq(Cleanups(endpoint[r]))
         /\ cause[r] = None =>
              \A phase \in Phase : Path(r, phase) =>
                \E u \in Place(endpoint[r]) :
                  /\ Moves(call, Spot(cleanup[r], phase), u, endpoint[r])
                  /\ \E t \in Place(endpoint[r]) :
                       /\ t.stack = <<>> /\ ~Exposed(t)
                       /\ Walk(Tail(todo[r]), u, t, endpoint[r])
                  /\ todo'[r] = Tail(todo[r]) /\ cleanup'[r] = u.stack => Path(r, u.phase)'
<1>1. /\ pc[r] = "running" /\ waits[r] = None /\ todo[r] # <<>> /\ Head(todo[r]) = call
      /\ todo[r] \in Seq(Call) /\ Handling(r)
  BY DEF At, Handlings, TypeOK
<1>2. call \in Call
  BY <1>1, HeadTailProperties
<1>3. ASSUME cause[r] # None
      PROVE  /\ call \in Cleanups(endpoint[r]) /\ cleanup[r] = <<>>
             /\ Tail(todo[r]) \in Seq(Cleanups(endpoint[r]))
  BY <1>1, <1>3, HeadTailProperties DEF Handling
<1> QED
  BY <1>1, <1>2, <1>3, Advance

LEMMA CleanupCalls ==
  ASSUME NEW e
  PROVE  Cleanups(e) \subseteq {"close", "release"} /\ {"close", "release"} \subseteq Call
BY DEF Cleanups, Call

(* Calls that leave the finally blocks alone.                              *)
LEMMA GoHandling ==
  ASSUME Handlings, NEW r \in Request, NEW call, At(r, call),
         call \in {"check", "connect", "query", "close", "release"},
         pc' = pc, endpoint' = endpoint, Go(r), cleanup' = cleanup, cause' = cause,
         waits'[r] = "connect" => cause[r] = None
  PROVE  Handling(r)' /\ todo' \in [Request -> Seq(Call)]
<1>1. /\ TypeOK /\ Handling(r) /\ todo[r] # <<>>
      /\ todo'[r] = Tail(todo[r]) /\ pc[r] = "running"
  BY DEF Handlings, TypeOK, Go, At
<1>2. Tail(todo[r]) \in Seq(Call)
  BY <1>1, HeadTailProperties DEF TypeOK
<1>3. ASSUME cause[r] # None PROVE Tail(todo[r]) \in Seq(Cleanups(endpoint[r]))
  BY <1>3, Going
<1>4. ASSUME cause[r] = None PROVE \E phase \in Phase : Path(r, phase)'
  <2>1. PICK phase \in Phase : Path(r, phase)
    BY <1>1, <1>4 DEF Handling
  <2>2. PICK u \in Place(endpoint[r]) :
          /\ Moves(call, Spot(cleanup[r], phase), u, endpoint[r])
          /\ todo'[r] = Tail(todo[r]) /\ cleanup'[r] = u.stack => Path(r, u.phase)'
    BY <1>4, <2>1, Going
  <2>3. u.stack = cleanup[r] /\ u.phase \in Phase
    BY <2>2 DEF Moves, Spot, Place
  <2> QED
    BY <1>1, <2>2, <2>3
<1>5. todo' \in [Request -> Seq(Call)]
  BY <1>1, <1>2 DEF Go, TypeOK
<1>6. Handling(r)'
  BY <1>1, <1>3, <1>4 DEF Handling
<1> QED
  BY <1>5, <1>6

(* An exception leaves only what finally blocks do.                        *)
LEMMA ThrowHandling ==
  ASSUME Handlings, NEW r \in Request, pc[r] = "running",
         NEW why \in {"check", "database", "connection"}, Throw(r, why),
         pc' = pc, endpoint' = endpoint, waits'[r] = None
  PROVE  /\ Handling(r)' /\ todo' \in [Request -> Seq(Call)]
         /\ cleanup' \in [Request -> Seq({"close", "release"})]
         /\ cause' \in [Request -> {None, "check", "database", "connection"}]
         /\ todo'[r] = cleanup[r] /\ cleanup'[r] = <<>> /\ cause'[r] = why
<1>1. /\ TypeOK /\ Handling(r)
      /\ todo'[r] = cleanup[r] /\ cleanup'[r] = <<>> /\ cause'[r] = why
  BY DEF Handlings, TypeOK, Throw
<1>2. /\ cleanup[r] \in Seq(Cleanups(endpoint[r])) /\ endpoint[r] \in Endpoints
      /\ cleanup[r] \in Seq({"close", "release"})
  BY <1>1 DEF Handling, TypeOK
<1>3. cleanup[r] \in Seq(Call) /\ <<>> \in Seq(Cleanups(endpoint[r])) /\ <<>> \in Seq({"close", "release"})
  BY <1>2, CleanupCalls, SeqMonotonic, EmptySeq
<1>4. why # None /\ None # "connect"
  BY NoneAssumption
<1>5. Handling(r)'
  BY <1>1, <1>2, <1>3, <1>4 DEF Handling
<1> QED
  BY <1>1, <1>2, <1>3, <1>5 DEF TypeOK, Throw

-----------------------------------------------------------------------------
(* Every step keeps every request in its handler.                          *)
LEMMA EnterHandling ==
  ASSUME Handlings, NEW r \in Request, Enter(r)
  PROVE  /\ Handlings' /\ cause[r] = None
         /\ \A phase \in Phase : Path(r, phase) => Path(r, phase)'
<1>1. /\ TypeOK /\ Handling(r) /\ pc[r] = "running" /\ waits[r] = None
      /\ todo[r] = <<>> /\ cause[r] = None
  BY DEF Handlings, Enter
<1>2. /\ endpoint' = endpoint /\ pc' = pc /\ cleanup' = cleanup /\ waits' = waits
      /\ cause' = cause /\ met' = met /\ conn' = conn /\ late' = late /\ failures' = failures
      /\ stage' = [stage EXCEPT ![r] = @ + 1] /\ stage[r] < Len(Handler[endpoint[r]])
  BY DEF Enter
<1> DEFINE e == endpoint[r]
<1>3. PICK calls \in Handler[e][stage[r] + 1] : todo' = [todo EXCEPT ![r] = calls]
  BY DEF Enter
<1>4. Steady(calls, <<>>, e)
  <2>1. e \in Endpoints /\ stage[r] \in Nat
    BY <1>1 DEF Handling, TypeOK
  <2>2. Len(Handler[e]) \in Nat
    BY <2>1, EndpointAssumption DEF Handler
  <2>3. stage[r] + 1 \in 1..Len(Handler[e])
    BY <1>2, <2>1, <2>2
  <2> QED
    BY <1>3, <2>1, <2>3, SteadyStages
<1>5. PICK now \in Phase : Path(r, now)
  BY <1>1 DEF Handling
<1>6. cleanup[r] = <<>> /\ \A phase \in Phase : Path(r, phase) => phase # "open"
  BY <1>1, <1>5, Arrived
<1>7. todo'[r] = calls
  BY <1>1, <1>3 DEF TypeOK
<1> HIDE DEF e
<1>8. ASSUME NEW phase \in Phase, Path(r, phase)
      PROVE  Path(r, phase)' /\ calls \in Seq(Call)
  <2>1. /\ Spot(<<>>, phase) \in Place(e) /\ Spot(<<>>, phase).stack = <<>>
        /\ ~Exposed(Spot(<<>>, phase))
    BY <1>6, <1>8, Beginning, SpotPlace DEF Exposed
  <2>2. PICK t \in Place(e) : Keeps(Spot(<<>>, phase), t) /\ Walk(calls, Spot(<<>>, phase), t, e)
    BY <1>4, <2>1 DEF Steady
  <2>3. t.stack = <<>> /\ ~Exposed(t) /\ calls \in Seq(Call)
    BY <2>1, <2>2 DEF Keeps, Walk
  <2>4. endpoint'[r] = e /\ cleanup'[r] = <<>>
    BY <1>2, <1>6 DEF e
  <2> QED
    BY <1>7, <2>2, <2>3, <2>4 DEF Path
<1>9. TypeOK'
  <2>1. todo' \in [Request -> Seq(Call)]
    BY <1>1, <1>3, <1>5, <1>8 DEF TypeOK
  <2>2. stage' \in [Request -> Nat]
    BY <1>1, <1>2 DEF TypeOK
  <2> QED
    BY <1>1, <1>2, <2>1, <2>2 DEF TypeOK
<1>10. Handling(r)'
  BY <1>1, <1>2, <1>5, <1>8 DEF Handling
<1>11. \A q \in Request \ {r} : Alike(q) /\ met'[q] = met[q]
  BY <1>1, <1>2, <1>3 DEF TypeOK, Alike
<1> QED
  BY <1>1, <1>8, <1>9, <1>10, <1>11, OthersAlike

LEMMA ArriveHandling ==
  ASSUME Handlings, NEW r \in Request, NEW e \in Endpoints, Arrive(r, e)
  PROVE  Handlings' /\ Path(r, "fresh")'
<1>1. TypeOK /\ Handling(r)
  BY DEF Handlings
<1> DEFINE calls == <<"check">>
<1>2. todo' = [todo EXCEPT ![r] = calls]
  BY DEF Arrive
<1>3. PICK t \in Place(e) : t.stack = <<>> /\ ~Exposed(t) /\ Walk(calls, Spot(<<>>, "fresh"), t, e)
  BY Beginning, SteadyCheck DEF Steady, Keeps
<1>4. calls \in Seq(Call)
  BY <1>3 DEF Walk
<1> HIDE DEF calls
<1>5. TypeOK'
  <2>1. todo' \in [Request -> Seq(Call)]
    BY <1>1, <1>2, <1>4 DEF TypeOK
  <2>2. met' \in [Request -> SUBSET Request]
    BY <1>1 DEF TypeOK, Arrive
  <2>3. pc' \in [Request -> {"idle", "running", "unhandled"} \cup Ended]
    BY <1>1 DEF TypeOK, Arrive
  <2>4. endpoint' \in [Request -> Endpoints \cup {None}]
    BY <1>1 DEF TypeOK, Arrive
  <2> QED
    BY <1>1, <2>1, <2>2, <2>3, <2>4 DEF TypeOK, Arrive
<1>6. /\ pc'[r] = "running" /\ endpoint'[r] = e /\ todo'[r] = calls
      /\ cleanup'[r] = <<>> /\ waits'[r] = None /\ cause'[r] = None
  BY <1>1, <1>2 DEF TypeOK, Arrive, Handling
<1>7. Path(r, "fresh")'
  BY <1>3, <1>6 DEF Path
<1>8. Handling(r)'
  BY <1>6, <1>7, Beginning DEF Handling, Phase
<1>9. \A q \in Request \ {r} : Alike(q) /\ (pc[q] = "idle" => met'[q] = met[q])
  BY <1>1 DEF TypeOK, Arrive, Alike
<1> QED
  BY <1>5, <1>7, <1>8, <1>9, OthersAlike

LEMMA WrongMethodHandling ==
  ASSUME Handlings, NEW r \in Request, NEW e \in Endpoints, ArriveWithWrongMethod(r, e)
  PROVE  Handlings'
<1>1. TypeOK /\ Handling(r)
  BY DEF Handlings
<1>2. TypeOK'
  BY <1>1 DEF TypeOK, ArriveWithWrongMethod, Ended
<1>3. /\ pc'[r] \in {"unhandled", "wrong_method"} /\ endpoint'[r] = e /\ todo'[r] = todo[r]
      /\ cleanup'[r] = <<>> /\ waits'[r] = None /\ cause'[r] = None
  BY <1>1 DEF TypeOK, ArriveWithWrongMethod, Handling
<1>4. Handling(r)'
  BY <1>3, Beginning DEF Handling
<1>5. \A q \in Request \ {r} : Alike(q) /\ met'[q] = met[q]
  BY <1>1 DEF TypeOK, ArriveWithWrongMethod, Alike
<1> QED
  BY <1>2, <1>4, <1>5, OthersAlike

LEMMA TryHandling ==
  ASSUME Handlings, NEW r \in Request, Try(r)
  PROVE  /\ Handlings' /\ cause[r] = None /\ cleanup'[r] # <<>>
         /\ \A phase \in Phase : Path(r, phase) => Path(r, phase)'
<1>1. TypeOK /\ Handling(r)
  BY DEF Handlings
<1>2. PICK call \in {"try", "try_release"} :
        /\ At(r, call)
        /\ cleanup' = [cleanup EXCEPT ![r] = (IF call = "try" THEN <<"close">> ELSE <<"release">>) \o @]
  BY DEF Try
<1>3. /\ endpoint' = endpoint /\ todo' = [todo EXCEPT ![r] = Tail(@)] /\ pc' = pc
      /\ waits' = waits /\ cause' = cause /\ met' = met
      /\ conn' = conn /\ late' = late /\ failures' = failures /\ stage' = stage
  BY DEF Try, Go
<1>4. cause[r] = None
  BY <1>2, <1>3, Going, CleanupCalls
<1>5. /\ todo'[r] = Tail(todo[r])
      /\ cleanup'[r] = (IF call = "try" THEN <<"close">> ELSE <<"release">>) \o cleanup[r]
      /\ todo[r] # <<>> /\ Tail(todo[r]) \in Seq(Call)
  BY <1>1, <1>2, <1>3, HeadTailProperties DEF TypeOK, At
<1>6. ASSUME NEW phase \in Phase, Path(r, phase)
      PROVE  /\ Path(r, phase)'
             /\ cleanup'[r] \in Seq(Cleanups(endpoint[r]))
  <2>1. PICK u \in Place(endpoint[r]) :
          /\ Moves(call, Spot(cleanup[r], phase), u, endpoint[r])
          /\ todo'[r] = Tail(todo[r]) /\ cleanup'[r] = u.stack => Path(r, u.phase)'
    BY <1>2, <1>3, <1>4, <1>6, Going
  <2>2. u.stack = cleanup'[r] /\ u.phase = phase
    <3> DEFINE s == Spot(cleanup[r], phase)
    <3>1. s.stack = cleanup[r] /\ s.phase = phase
      BY DEF Spot
    <3> HIDE DEF s
    <3>2. CASE call = "try"
      <4>1. u = Spot(<<"close">> \o s.stack, s.phase)
        BY <2>1, <3>2 DEF Moves, s
      <4> QED
        BY <1>5, <3>1, <3>2, <4>1 DEF Spot
    <3>3. CASE call = "try_release"
      <4>1. u = Spot(<<"release">> \o s.stack, s.phase)
        BY <2>1, <3>3 DEF Moves, s
      <4> QED
        BY <1>5, <3>1, <3>3, <4>1 DEF Spot
    <3> QED
      BY <3>2, <3>3
  <2> QED
    BY <1>5, <2>1, <2>2 DEF Place
<1>7. /\ cleanup'[r] \in Seq({"close", "release"}) /\ cleanup'[r] # <<>>
      /\ cleanup' \in [Request -> Seq({"close", "release"})]
  <2>1. <<"close">> \o cleanup[r] \in Seq({"close", "release"}) /\ <<"close">> \o cleanup[r] # <<>>
    BY <1>1, Push DEF TypeOK
  <2>2. <<"release">> \o cleanup[r] \in Seq({"close", "release"}) /\ <<"release">> \o cleanup[r] # <<>>
    BY <1>1, Push DEF TypeOK
  <2>3. cleanup'[r] \in Seq({"close", "release"}) /\ cleanup'[r] # <<>>
    BY <1>5, <2>1, <2>2
  <2>4. \A q \in Request \ {r} : cleanup'[q] = cleanup[q]
    BY <1>1, <1>2 DEF TypeOK
  <2>5. cleanup' = [q \in Request |-> cleanup'[q]]
    BY <1>1, <1>2 DEF TypeOK
  <2> QED
    BY <1>1, <2>3, <2>4, <2>5 DEF TypeOK
<1>8. todo' \in [Request -> Seq(Call)]
  BY <1>1, <1>3, <1>5 DEF TypeOK
<1>9. TypeOK'
  BY <1>1, <1>3, <1>7, <1>8 DEF TypeOK
<1>10. pc[r] = "running" /\ \E phase \in Phase : Path(r, phase)
  BY <1>1, <1>2, <1>4 DEF Handling, At
<1>11. Handling(r)'
  BY <1>1, <1>3, <1>4, <1>6, <1>10 DEF Handling
<1>12. \A q \in Request \ {r} : Alike(q) /\ met'[q] = met[q]
  BY <1>1, <1>2, <1>3 DEF TypeOK, Alike
<1> QED
  BY <1>4, <1>6, <1>7, <1>9, <1>11, <1>12, OthersAlike

LEMMA EndHandling ==
  ASSUME Handlings, NEW r \in Request, End(r)
  PROVE  /\ Handlings' /\ cause[r] = None
         /\ todo'[r] # <<>> /\ Head(todo'[r]) \in {"close", "release"}
         /\ \A phase \in Phase : Path(r, phase) => Path(r, phase)'
<1>1. TypeOK /\ Handling(r) /\ At(r, "end")
  BY DEF Handlings, End
<1>2. /\ endpoint' = endpoint /\ pc' = pc /\ waits' = waits /\ cause' = cause /\ met' = met
      /\ conn' = conn /\ late' = late /\ failures' = failures /\ stage' = stage
  BY DEF End
<1>3. cause[r] = None
  BY <1>1, <1>2, Going, CleanupCalls
<1>4. PICK p0 \in Phase : Path(r, p0)
  BY <1>1, <1>3 DEF Handling, At
<1> DEFINE s(phase) == Spot(cleanup[r], phase)
           rest == Spot(Tail(cleanup[r]), "closed")
<1>5. ASSUME NEW phase \in Phase, Path(r, phase)
      PROVE  /\ cleanup[r] # <<>> /\ ClosesOnThrow(s(phase))
             /\ rest \in Place(endpoint[r])
             /\ \E t \in Place(endpoint[r]) :
                  /\ t.stack = <<>> /\ ~Exposed(t)
                  /\ Walk(Tail(todo[r]), rest, t, endpoint[r])
  <2>1. PICK u \in Place(endpoint[r]) :
          /\ Moves("end", s(phase), u, endpoint[r])
          /\ \E t \in Place(endpoint[r]) :
               /\ t.stack = <<>> /\ ~Exposed(t)
               /\ Walk(Tail(todo[r]), u, t, endpoint[r])
    BY <1>1, <1>2, <1>3, <1>5, Going
  <2>2. s(phase).stack = cleanup[r]
    BY DEF Spot
  <2>3. s(phase).stack # <<>> /\ ClosesOnThrow(s(phase)) /\ u = Spot(Tail(s(phase).stack), "closed")
    BY <2>1 DEF Moves
  <2>4. u = rest
    BY <2>2, <2>3
  <2> QED
    BY <2>1, <2>2, <2>3, <2>4
<1> DEFINE h == Head(cleanup[r])
<1>6. /\ cleanup[r] \in Seq(Cleanups(endpoint[r])) /\ cleanup[r] \in Seq({"close", "release"})
      /\ cleanup[r] # <<>>
  BY <1>1, <1>4, <1>5 DEF Handling, TypeOK
<1>7. /\ h \in Cleanups(endpoint[r]) /\ h \in {"close", "release"}
      /\ Tail(cleanup[r]) \in Seq(Cleanups(endpoint[r]))
      /\ Tail(cleanup[r]) \in Seq({"close", "release"})
  BY <1>6, HeadTailProperties
<1>8. todo[r] \in Seq(Call) /\ todo[r] # <<>> /\ Tail(todo[r]) \in Seq(Call) /\ h \in Call
  BY <1>1, <1>7, HeadTailProperties DEF TypeOK, At, Call
<1>9. todo'[r] = <<h>> \o Tail(todo[r]) /\ cleanup'[r] = Tail(cleanup[r])
  BY <1>1 DEF End, TypeOK
<1>10. todo'[r] \in Seq(Call) /\ todo'[r] # <<>> /\ Head(todo'[r]) = h
  BY <1>8, <1>9, Push
<1>11. ASSUME NEW phase \in Phase, Path(r, phase) PROVE Path(r, phase)'
  <2>1. PICK t \in Place(endpoint[r]) :
          /\ t.stack = <<>> /\ ~Exposed(t)
          /\ Walk(Tail(todo[r]), rest, t, endpoint[r])
    BY <1>5, <1>11
  <2> DEFINE now == Spot(Tail(cleanup[r]), phase)
  <2>2. now \in Place(endpoint[r]) /\ now.stack = Tail(cleanup[r]) /\ now.phase = phase
    BY <1>7, SpotPlace
  <2>3. Moves(h, now, rest, endpoint[r])
    <3>1. CASE h = "close"
      BY <2>2, <3>1 DEF Moves
    <3>2. CASE h = "release"
      <4>1. phase = "closed"
        BY <1>5, <1>6, <1>11, <3>2 DEF ClosesOnThrow, Spot
      <4>2. endpoint[r] = "userinfo"
        BY <1>7, <3>2 DEF Cleanups
      <4> QED
        BY <2>2, <3>2, <4>1, <4>2 DEF Moves
    <3> QED
      BY <1>7, <3>1, <3>2
  <2>4. Walk(<<h>>, now, rest, endpoint[r])
    BY <1>5, <1>8, <1>11, <2>2, <2>3, WalkOne
  <2> HIDE DEF rest, now, h
  <2>5. Walk(<<h>> \o Tail(todo[r]), now, t, endpoint[r])
    BY <2>1, <2>4, WalkJoins
  <2> QED
    BY <1>2, <1>9, <2>1, <2>5 DEF Path, now
<1>12. TypeOK'
  <2>1. todo' \in [Request -> Seq(Call)]
    BY <1>1, <1>9, <1>10 DEF TypeOK, End
  <2>2. cleanup' \in [Request -> Seq({"close", "release"})]
    BY <1>1, <1>7, <1>9 DEF TypeOK, End
  <2> QED
    BY <1>1, <1>2, <2>1, <2>2 DEF TypeOK
<1>13. Handling(r)'
  <2>1. pc[r] = "running"
    BY <1>1 DEF At
  <2> QED
    BY <1>1, <1>2, <1>3, <1>4, <1>7, <1>9, <1>11, <2>1 DEF Handling
<1>14. \A q \in Request \ {r} : Alike(q) /\ met'[q] = met[q]
  BY <1>1, <1>2 DEF TypeOK, Alike, End
<1> QED
  BY <1>3, <1>7, <1>10, <1>11, <1>12, <1>13, <1>14, OthersAlike

LEMMA CallHandling ==
  ASSUME Handlings, NEW r \in Request,
         Check(r) \/ Connect(r) \/ Query(r) \/ Close(r) \/ Release(r)
  PROVE  Handlings'
<1>1. TypeOK /\ Handling(r)
  BY DEF Handlings
<1>2. PICK call \in {"check", "connect", "query", "close", "release"} :
        /\ At(r, call)
        /\ call = "check" <=> Check(r)
        /\ call = "connect" => Connect(r)
  BY DEF Check, Connect, Query, Close, Release, At
<1>3. /\ endpoint' = endpoint /\ pc' = pc /\ met' = met /\ failures' = failures
      /\ stage' = stage /\ pc[r] = "running" /\ waits[r] = None
  BY <1>2 DEF Check, Connect, Query, Close, Release, At
<1>4. call \in {"check", "connect", "query"} => cause[r] = None
  BY <1>2, <1>3, Going, CleanupCalls
<1>5. /\ conn' \in {"disconnected", "connecting", "connected", "disconnecting"}
      /\ late' \in BOOLEAN
  BY <1>1 DEF TypeOK, Check, Connect, Query, Close, Release
<1>6. /\ waits' \in [Request -> {None, "connect", "open", "close"}]
      /\ \A q \in Request \ {r} : waits'[q] = waits[q]
      /\ waits'[r] = "connect" => call = "connect"
  <2>1. CASE Connect(r) \/ Close(r)
    BY <1>1, <1>2, <2>1, NoneAssumption DEF TypeOK, Connect, Close, Wait, At
  <2>2. CASE Check(r) \/ Query(r) \/ Release(r)
    BY <1>1, <1>3, <2>2, NoneAssumption DEF TypeOK, Check, Query, Release
  <2> QED
    BY <2>1, <2>2
<1>7. CASE Go(r) /\ cleanup' = cleanup /\ cause' = cause
  <2>1. Handling(r)' /\ todo' \in [Request -> Seq(Call)]
    BY <1>2, <1>3, <1>4, <1>6, <1>7, GoHandling
  <2>2. TypeOK'
    BY <1>1, <1>3, <1>5, <1>6, <1>7, <2>1 DEF TypeOK
  <2>3. \A q \in Request \ {r} : Alike(q) /\ met'[q] = met[q]
    BY <1>1, <1>3, <1>6, <1>7 DEF TypeOK, Alike, Go
  <2> QED
    BY <2>1, <2>2, <2>3, OthersAlike
<1>8. CASE Check(r) /\ Throw(r, "check")
  <2>1. waits' = waits
    BY <1>8 DEF Check
  <2>2. /\ Handling(r)' /\ todo' \in [Request -> Seq(Call)]
        /\ cleanup' \in [Request -> Seq({"close", "release"})]
        /\ cause' \in [Request -> {None, "check", "database", "connection"}]
    BY <1>3, <1>8, <2>1, ThrowHandling
  <2>3. TypeOK'
    BY <1>1, <1>3, <1>5, <1>6, <2>2 DEF TypeOK
  <2>4. \A q \in Request \ {r} : Alike(q) /\ met'[q] = met[q]
    BY <1>1, <1>3, <1>6, <1>8 DEF TypeOK, Alike, Throw
  <2> QED
    BY <2>2, <2>3, <2>4, OthersAlike
<1> QED
  BY <1>7, <1>8 DEF Check, Connect, Query, Close, Release

LEMMA LostHandling ==
  ASSUME Handlings, NEW r \in Request, LoseConnection(r) \/ FailQuery(r) \/ Refused(r)
  PROVE  /\ Handlings' /\ cause[r] = None /\ waits'[r] = None /\ pc[r] = "running"
         /\ cause'[r] \in {"database", "connection"}
         /\ todo'[r] = cleanup[r] /\ cleanup'[r] = <<>>
         /\ \A q \in Request \ {r} : Alike(q)
         /\ endpoint' = endpoint /\ pc' = pc /\ met' = met /\ late' = late
<1>1. TypeOK /\ Handling(r)
  BY DEF Handlings
<1>2. /\ endpoint' = endpoint /\ pc' = pc /\ met' = met /\ late' = late
      /\ conn' \in {conn, "disconnected"} /\ stage' = stage
  BY DEF LoseConnection, FailQuery, Refused
<1>3. cause[r] = None /\ pc[r] = "running"
  <2>1. CASE Refused(r)
    BY <1>1, <2>1, NoneAssumption DEF Refused, Handling
  <2>2. CASE LoseConnection(r) \/ FailQuery(r)
    BY <1>2, <2>2, Going, CleanupCalls DEF LoseConnection, FailQuery
  <2> QED
    BY <2>1, <2>2
<1>4. failures' \in 0..MaxFailures
  BY <1>1, BoundAssumption DEF TypeOK, LoseConnection, FailQuery, Refused
<1>5. /\ waits'[r] = None /\ waits' \in [Request -> {None, "connect", "open", "close"}]
      /\ \A q \in Request \ {r} : waits'[q] = waits[q]
  BY <1>1 DEF TypeOK, LoseConnection, FailQuery, Refused, At, Wait
<1>6. PICK why \in {"database", "connection"} : Throw(r, why)
  BY DEF LoseConnection, FailQuery, Refused
<1>7. /\ Handling(r)' /\ todo' \in [Request -> Seq(Call)]
      /\ cleanup' \in [Request -> Seq({"close", "release"})]
      /\ cause' \in [Request -> {None, "check", "database", "connection"}]
      /\ todo'[r] = cleanup[r] /\ cleanup'[r] = <<>> /\ cause'[r] = why
  BY <1>2, <1>3, <1>5, <1>6, ThrowHandling
<1>8. TypeOK'
  BY <1>1, <1>2, <1>4, <1>5, <1>7 DEF TypeOK
<1>9. \A q \in Request \ {r} : Alike(q)
  BY <1>1, <1>2, <1>5, <1>6 DEF TypeOK, Alike, Throw
<1> QED
  BY <1>2, <1>3, <1>5, <1>7, <1>8, <1>9, OthersAlike

LEMMA RespondHandling ==
  ASSUME Handlings, NEW r \in Request, Respond(r)
  PROVE  Handlings'
<1>1. TypeOK /\ Handling(r)
  BY DEF Handlings
<1>2. pc'[r] \in {"ok", "error"} /\ pc[r] = "running" /\ waits[r] = None
  BY <1>1 DEF TypeOK, Respond
<1>3. /\ endpoint' = endpoint /\ todo' = todo /\ cleanup' = cleanup /\ waits' = waits
      /\ cause' = cause /\ met' = met /\ conn' = conn /\ late' = late /\ failures' = failures
      /\ stage' = stage
  BY DEF Respond
<1>4. TypeOK'
  <2>1. pc' \in [Request -> {"idle", "running", "unhandled"} \cup Ended]
    BY <1>1, <1>2 DEF TypeOK, Respond, Ended
  <2> QED
    BY <1>1, <1>3, <2>1 DEF TypeOK
<1>5. Handling(r)'
  BY <1>1, <1>2, <1>3 DEF Handling
<1>6. \A q \in Request \ {r} : Alike(q) /\ met'[q] = met[q]
  BY <1>1, <1>3 DEF TypeOK, Alike, Respond
<1> QED
  BY <1>4, <1>5, <1>6, OthersAlike

(* Events of the connection wake requests up, or put one wait in the place *)
(* of another.                                                             *)
LEMMA EventHandling ==
  ASSUME Handlings, Opened \/ Closed
  PROVE  Handlings'
<1>1. TypeOK
  BY DEF Handlings
<1>2. \A q \in Request : waits'[q] \in {None, "close", waits[q]} /\ (waits[q] = None => waits'[q] = None)
  BY NoneAssumption DEF Opened, Closed
<1>3. /\ pc' = pc /\ endpoint' = endpoint /\ todo' = todo /\ cleanup' = cleanup
      /\ cause' = cause /\ met' = met /\ failures' = failures /\ stage' = stage
  BY DEF Opened, Closed
<1>4. TypeOK'
  <2>1. waits' \in [Request -> {None, "connect", "open", "close"}]
    BY <1>1 DEF TypeOK, Opened, Closed
  <2>2. /\ conn' \in {"disconnected", "connecting", "connected", "disconnecting"}
        /\ late' \in BOOLEAN
    BY <1>1 DEF TypeOK, Opened, Closed
  <2> QED
    BY <1>1, <1>3, <2>1, <2>2 DEF TypeOK
<1>5. ASSUME NEW q \in Request PROVE Handling(q)'
  BY <1>2, <1>3, Untouched DEF Handlings
<1> QED
  BY <1>4, <1>5 DEF Handlings

LEMMA StutterHandlings == Handlings /\ UNCHANGED vars => Handlings'
<1> SUFFICES ASSUME Handlings, UNCHANGED vars PROVE Handlings'
  OBVIOUS
<1>1. \A q \in Request : Handling(q)'
  BY Untouched DEF Handlings, vars
<1> QED
  BY <1>1 DEF Handlings, TypeOK, vars

LEMMA StepHandlings == Handlings /\ [Next]_vars => Handlings'
BY ArriveHandling, WrongMethodHandling, EnterHandling, TryHandling, EndHandling, CallHandling, LostHandling,
   RespondHandling, EventHandling, StutterHandlings DEF Next, Proceed

LEMMA AlwaysHandlings == Spec => []Handlings
BY InitHandlings, StepHandlings, PTL DEF Spec

(* Type correctness of the connection and of the requests that share it:   *)
(* every finally block that runs is one that was entered.                  *)
THEOREM ServerTyped == Spec => []TypeOK
<1>1. Handlings => TypeOK
  BY DEF Handlings
<1> QED
  BY <1>1, AlwaysHandlings, PTL

-----------------------------------------------------------------------------
(* Who waits for what: the request that opens the connection is the only   *)
(* one that waits for it.                                                  *)
Waiting ==
  /\ \A r \in Request : waits[r] = "connect" => conn = "connecting"
  /\ \A r \in Request : waits[r] = "close" => conn = "disconnecting"
  /\ \A r, q \in Request : waits[r] = "connect" /\ waits[q] = "connect" => r = q
  /\ conn = "connecting" => \E r \in Request : waits[r] = "connect"

LEMMA InitWaiting == Init => Waiting
BY NoneAssumption DEF Init, Waiting

LEMMA SameWaiting ==
  ASSUME Waiting, conn' = conn, waits' = waits
  PROVE  Waiting'
BY DEF Waiting

LEMMA StepWaiting == Handlings /\ Waiting /\ [Next]_vars => Waiting'
<1> SUFFICES ASSUME Handlings, Waiting, [Next]_vars PROVE Waiting'
  OBVIOUS
<1>1. TypeOK
  BY DEF Handlings
<1>2. CASE Opened
  BY <1>1, <1>2, NoneAssumption DEF Waiting, Opened, TypeOK
<1>3. CASE Closed
  BY <1>1, <1>3, NoneAssumption DEF Waiting, Closed, TypeOK
<1>4. ASSUME NEW r \in Request, Connect(r) PROVE Waiting'
  BY <1>1, <1>4, NoneAssumption DEF Waiting, Connect, Wait, TypeOK
<1>5. ASSUME NEW r \in Request, Close(r) PROVE Waiting'
  <2>1. waits[r] = None
    BY <1>5 DEF Close, At
  <2>2. CASE conn = "connected"
    BY <1>1, <1>5, <2>1, <2>2, NoneAssumption DEF Waiting, Close, Wait, TypeOK
  <2>3. CASE conn # "connected"
    <3>1. conn' = conn /\ \A q \in Request \ {r} : waits'[q] = waits[q]
      BY <1>1, <1>5, <2>3 DEF Close, Wait, TypeOK
    <3>2. waits'[r] \in {None, "open", "close"} /\ (waits'[r] = "close" => conn = "disconnecting")
      BY <1>1, <1>5, <2>3, NoneAssumption DEF Close, Wait, TypeOK
    <3> QED
      BY <2>1, <3>1, <3>2, NoneAssumption DEF Waiting
  <2> QED
    BY <2>2, <2>3
<1>6. ASSUME NEW r \in Request, Release(r) PROVE Waiting'
  BY <1>1, <1>6, NoneAssumption DEF Waiting, Release, TypeOK
<1>7. ASSUME NEW r \in Request, Refused(r) PROVE Waiting'
  BY <1>1, <1>7, NoneAssumption DEF Waiting, Refused, Wait, TypeOK
<1>8. ASSUME NEW r \in Request,
             \/ \E e \in Endpoints : Arrive(r, e) \/ ArriveWithWrongMethod(r, e)
             \/ Enter(r) \/ Try(r) \/ End(r) \/ Check(r) \/ Query(r) \/ LoseConnection(r)
             \/ FailQuery(r) \/ Respond(r)
      PROVE  Waiting'
  BY <1>8, SameWaiting DEF Arrive, ArriveWithWrongMethod, Enter, Try, End, Check, Query, LoseConnection,
                           FailQuery, Respond
<1>9. CASE UNCHANGED vars
  BY <1>9, SameWaiting DEF vars
<1> QED
  BY <1>2, <1>3, <1>4, <1>5, <1>6, <1>7, <1>8, <1>9 DEF Next, Proceed

-----------------------------------------------------------------------------
(* A connection that is opening or open is owed a close: some request has  *)
(* it before it, or waits until it can, or a close is late; or a request   *)
(* has leaked it.                                                          *)
Owes(r) ==
  /\ pc[r] = "running"
  /\ \/ cleanup[r] # <<>>
     \/ todo[r] # <<>> /\ Head(todo[r]) \in {"close", "release"}
     \/ cause[r] = None /\ Path(r, "open")

Leaked(r) == cause[r] \in {"database", "connection"} /\ endpoint[r] \in Leaky

Owed == \E r \in Request : Owes(r) \/ Leaked(r)

Returned ==
  conn \in {"connecting", "connected"} =>
    Owed \/ (conn = "connecting" /\ (late \/ \E r \in Request : waits[r] = "open"))

LEMMA InitReturned == Init => Returned
BY DEF Init, Returned

LEMMA AlikeOwes ==
  ASSUME NEW q \in Request, pc'[q] = pc[q], endpoint'[q] = endpoint[q], todo'[q] = todo[q],
         cleanup'[q] = cleanup[q], cause'[q] = cause[q]
  PROVE  (Owes(q) => Owes(q)') /\ (Leaked(q) => Leaked(q)')
BY DEF Owes, Leaked, Path

LEMMA OwedStays ==
  ASSUME NEW r \in Request, Owed, \A q \in Request \ {r} : Alike(q),
         Owes(r) \/ Leaked(r) => Owes(r)' \/ Leaked(r)'
  PROVE  Owed'
BY AlikeOwes DEF Owed, Alike

(* What the calls of a handler do to the debt of their request.            *)
LEMMA ArriveOwes ==
  ASSUME Handlings, NEW r \in Request, NEW e \in Endpoints,
         Arrive(r, e) \/ ArriveWithWrongMethod(r, e)
  PROVE  Owed => Owed'
<1>1. ~Owes(r) /\ ~Leaked(r)
  BY NoneAssumption DEF Handlings, Handling, Arrive, ArriveWithWrongMethod, Owes, Leaked
<1>2. \A q \in Request \ {r} : Alike(q)
  BY DEF Handlings, TypeOK, Arrive, ArriveWithWrongMethod, Alike
<1> QED
  BY <1>1, <1>2, OwedStays

LEMMA BlockOwes ==
  ASSUME Handlings, NEW r \in Request, Try(r) \/ End(r)
  PROVE  Owes(r)' /\ \A q \in Request \ {r} : Alike(q)
<1>1. pc'[r] = "running"
  BY DEF Try, End, At
<1>2. Owes(r)'
  BY <1>1, TryHandling, EndHandling DEF Owes
<1>3. \A q \in Request \ {r} : Alike(q)
  BY DEF Handlings, TypeOK, Try, End, Go, Alike
<1> QED
  BY <1>2, <1>3

LEMMA ConnectOwes ==
  ASSUME Handlings, NEW r \in Request, Connect(r)
  PROVE  Owes(r)'
<1>1. At(r, "connect") /\ endpoint' = endpoint /\ cleanup' = cleanup /\ pc' = pc /\ cause' = cause
  BY DEF Connect
<1>2. cause[r] = None /\ pc[r] = "running"
  BY <1>1, Going, CleanupCalls
<1>3. PICK phase \in Phase : Path(r, phase)
  BY <1>2 DEF Handlings, Handling
<1>4. PICK u \in Place(endpoint[r]) :
        /\ Moves("connect", Spot(cleanup[r], phase), u, endpoint[r])
        /\ todo'[r] = Tail(todo[r]) /\ cleanup'[r] = u.stack => Path(r, u.phase)'
  BY <1>1, <1>2, <1>3, Going
<1>5. u.stack = cleanup[r] /\ u.phase = "open"
  BY <1>4 DEF Moves, Spot
<1>6. todo'[r] = Tail(todo[r])
  BY DEF Handlings, TypeOK, Connect, Go
<1>7. Path(r, "open")'
  BY <1>1, <1>4, <1>5, <1>6
<1> QED
  BY <1>1, <1>2, <1>7 DEF Owes

LEMMA GoOwes ==
  ASSUME Handlings, NEW r \in Request, NEW call \in {"check", "query"}, At(r, call),
         Go(r), pc' = pc, endpoint' = endpoint, cleanup' = cleanup, cause' = cause, Owes(r)
  PROVE  Owes(r)'
<1>1. cause[r] = None /\ pc[r] = "running" /\ Head(todo[r]) = call
  BY Going, CleanupCalls DEF At
<1>2. CASE cleanup[r] # <<>>
  BY <1>1, <1>2 DEF Owes
<1>3. CASE Path(r, "open")
  <2>1. PICK u \in Place(endpoint[r]) :
          /\ Moves(call, Spot(cleanup[r], "open"), u, endpoint[r])
          /\ todo'[r] = Tail(todo[r]) /\ cleanup'[r] = u.stack => Path(r, u.phase)'
    BY <1>1, <1>3, Going DEF Phase
  <2>2. u.stack = cleanup[r] /\ u.phase = "open"
    BY <2>1 DEF Moves, Spot
  <2>3. todo'[r] = Tail(todo[r])
    BY DEF Handlings, TypeOK, Go
  <2>4. Path(r, "open")'
    BY <2>1, <2>2, <2>3
  <2> QED
    BY <1>1, <2>4 DEF Owes
<1> QED
  BY <1>1, <1>2, <1>3 DEF Owes

(* Where a debtor throws, a finally block closes, or the endpoint leaks.   *)
LEMMA ThrowOwes ==
  ASSUME Handlings, NEW r \in Request, NEW call \in {"check", "query"}, At(r, call),
         NEW why \in {"check", "database", "connection"},
         call = "query" => why # "check",
         Throw(r, why), pc' = pc, endpoint' = endpoint, Owes(r)
  PROVE  Owes(r)' \/ Leaked(r)'
<1>1. cause[r] = None /\ pc[r] = "running" /\ Head(todo[r]) = call
  BY Going, CleanupCalls DEF At
<1>2. todo'[r] = cleanup[r] /\ cause'[r] = why
  BY DEF Handlings, TypeOK, Throw
<1>3. CASE cleanup[r] # <<>>
  <2>1. cleanup[r] \in Seq({"close", "release"})
    BY DEF Handlings, TypeOK
  <2>2. Head(cleanup[r]) \in {"close", "release"}
    BY <1>3, <2>1, HeadTailProperties
  <2> QED
    BY <1>1, <1>2, <1>3, <2>2 DEF Owes
<1>4. CASE cleanup[r] = <<>>
  <2>1. Path(r, "open")
    BY <1>1, <1>4 DEF Owes
  <2>2. PICK u : Moves(call, Spot(cleanup[r], "open"), u, endpoint[r])
    BY <1>1, <2>1, Going DEF Phase
  <2>3. call = "query" /\ endpoint[r] \in Leaky
    BY <1>4, <2>2 DEF Moves, Spot, Exposed
  <2> QED
    BY <1>2, <2>3 DEF Leaked
<1> QED
  BY <1>3, <1>4

LEMMA RespondOwes ==
  ASSUME Handlings, NEW r \in Request, Enter(r) \/ Respond(r)
  PROVE  ~Owes(r)
<1>1. pc[r] = "running" /\ todo[r] = <<>> /\ Handling(r)
  BY DEF Enter, Respond, Over, Handlings
<1>2. CASE cause[r] # None
  BY <1>1, <1>2 DEF Handling, Owes
<1>3. CASE cause[r] = None
  <2>1. cleanup[r] = <<>>
    BY <1>1, <1>3, Arrived DEF Handling
  <2>2. ~Path(r, "open")
    BY <1>1, <1>3, Arrived DEF Phase
  <2> QED
    BY <1>1, <2>1, <2>2 DEF Owes
<1> QED
  BY <1>2, <1>3

LEMMA NotLeaked ==
  ASSUME Handlings, NEW r \in Request, cause[r] = None
  PROVE  ~Leaked(r)
BY NoneAssumption DEF Leaked

LEMMA StepReturned == Handlings /\ Returned /\ [Next]_vars => Returned'
<1> SUFFICES ASSUME Handlings, Returned, [Next]_vars PROVE Returned'
  OBVIOUS
<1>1. TypeOK
  BY DEF Handlings
<1>2. ASSUME conn' = conn, late' = late, waits' = waits, Owed => Owed'
      PROVE  Returned'
  BY <1>2 DEF Returned
<1>3. CASE Opened
  <2>1. conn' = "connected" => conn = "connecting" /\ ~late /\ \A r \in Request : waits[r] # "open"
    BY <1>3 DEF Opened
  <2>2. conn' \in {"connected", "disconnecting"}
    BY <1>3 DEF Opened
  <2>3. Owed => Owed'
    BY <1>3, AlikeOwes DEF Opened, Owed
  <2> QED
    BY <2>1, <2>2, <2>3 DEF Returned
<1>4. CASE Closed
  BY <1>4 DEF Closed, Returned
<1>5. ASSUME NEW r \in Request, NEW e \in Endpoints,
             Arrive(r, e) \/ ArriveWithWrongMethod(r, e)
      PROVE  Returned'
  BY <1>2, <1>5, ArriveOwes DEF Arrive, ArriveWithWrongMethod
<1>6. ASSUME NEW r \in Request, Try(r) \/ End(r) PROVE Returned'
  BY <1>2, <1>6, BlockOwes DEF Owed, Try, End
<1>7. ASSUME NEW r \in Request, Connect(r) PROVE Returned'
  BY <1>7, ConnectOwes DEF Returned, Owed
<1>8. ASSUME NEW r \in Request, Close(r) PROVE Returned'
  <2>1. conn' \in {"connecting", "connected"} => conn' = "connecting" /\ waits'[r] = "open"
    BY <1>1, <1>8 DEF Close, Wait, TypeOK
  <2> QED
    BY <2>1 DEF Returned
<1>9. ASSUME NEW r \in Request, Release(r) PROVE Returned'
  BY <1>1, <1>9 DEF Release, Returned, TypeOK
<1>10. ASSUME NEW r \in Request, Query(r) PROVE Returned'
  <2>1. /\ At(r, "query") /\ Go(r) /\ pc' = pc /\ endpoint' = endpoint /\ cleanup' = cleanup
        /\ cause' = cause /\ conn' = conn /\ late' = late /\ waits' = waits
    BY <1>10 DEF Query
  <2>2. Owes(r) => Owes(r)'
    BY <2>1, GoOwes
  <2>3. Leaked(r) => Leaked(r)'
    BY <2>1 DEF Leaked
  <2>4. \A q \in Request \ {r} : Alike(q)
    BY <1>1, <2>1 DEF TypeOK, Go, Alike
  <2> QED
    BY <1>2, <2>1, <2>2, <2>3, <2>4, OwedStays
<1>11. ASSUME NEW r \in Request, Check(r) PROVE Returned'
  <2>1. /\ At(r, "check") /\ pc' = pc /\ endpoint' = endpoint
        /\ conn' = conn /\ late' = late /\ waits' = waits
        /\ \/ Go(r) /\ cleanup' = cleanup /\ cause' = cause
           \/ Throw(r, "check")
    BY <1>11 DEF Check
  <2>2. Owes(r) => Owes(r)' \/ Leaked(r)'
    BY <2>1, GoOwes, ThrowOwes
  <2>3. ~Leaked(r)
    BY <2>1, Going, CleanupCalls, NotLeaked
  <2>4. \A q \in Request \ {r} : Alike(q)
    BY <1>1, <2>1 DEF TypeOK, Go, Throw, Alike
  <2> QED
    BY <1>2, <2>1, <2>2, <2>3, <2>4, OwedStays
<1>12. ASSUME NEW r \in Request, LoseConnection(r) \/ FailQuery(r) PROVE Returned'
  <2>1. /\ At(r, "query") /\ pc' = pc /\ endpoint' = endpoint
        /\ conn' = conn /\ late' = late /\ waits' = waits
        /\ \E why \in {"database", "connection"} : Throw(r, why)
    BY <1>12 DEF LoseConnection, FailQuery
  <2>2. Owes(r) => Owes(r)' \/ Leaked(r)'
    BY <2>1, ThrowOwes
  <2>3. ~Leaked(r) /\ \A q \in Request \ {r} : Alike(q)
    BY <1>12, LostHandling, NotLeaked
  <2> QED
    BY <1>2, <2>1, <2>2, <2>3, OwedStays
<1>13. ASSUME NEW r \in Request, Refused(r) PROVE Returned'
  BY <1>13 DEF Refused, Returned
<1>14. ASSUME NEW r \in Request, Enter(r) \/ Respond(r) PROVE Returned'
  <2>1. /\ endpoint' = endpoint /\ cause' = cause
        /\ conn' = conn /\ late' = late /\ waits' = waits
    BY <1>14 DEF Enter, Respond
  <2>2. Leaked(r) => Leaked(r)'
    BY <2>1 DEF Leaked
  <2>3. \A q \in Request \ {r} : Alike(q)
    BY <1>1, <1>14 DEF TypeOK, Enter, Respond, Alike
  <2> QED
    BY <1>2, <1>14, <2>1, <2>2, <2>3, RespondOwes, OwedStays
<1>15. CASE UNCHANGED vars
  <2>1. Owed => Owed'
    BY <1>15, AlikeOwes DEF vars, Owed
  <2> QED
    BY <1>2, <1>15, <2>1 DEF vars
<1> QED
  BY <1>3, <1>4, <1>5, <1>6, <1>7, <1>8, <1>9, <1>10, <1>11, <1>12, <1>13, <1>14, <1>15
     DEF Next, Proceed

LEMMA AlwaysWaiting == Spec => [](Handlings /\ Waiting)
<1>1. Init => Handlings /\ Waiting
  BY InitHandlings, InitWaiting
<1>2. (Handlings /\ Waiting) /\ [Next]_vars => (Handlings /\ Waiting)'
  BY StepHandlings, StepWaiting
<1> QED
  BY <1>1, <1>2, PTL DEF Spec

(* Whichever requests open the connection for each other, once none runs   *)
(* it is closed or closing, unless a query has failed where the code has   *)
(* no finally block (login, fetchKeys and saveKeys).                       *)
THEOREM ConnectionsAreReturned == Spec => []ConnectionIsReturned
<1>1. Handlings /\ Waiting /\ Returned => ConnectionIsReturned
  <2> SUFFICES ASSUME Handlings, Waiting, Returned, Quiet, conn \in {"connecting", "connected"}
               PROVE  \E r \in Request : Leaked(r)
    BY DEF ConnectionIsReturned, Leaked, Leaky
  <2>1. \A r \in Request : pc[r] # "running" /\ waits[r] = None
    BY DEF Quiet, Handlings, Handling
  <2>2. conn # "connecting"
    BY <2>1, NoneAssumption DEF Waiting
  <2>3. Owed
    BY <2>2 DEF Returned
  <2> QED
    BY <2>1, <2>3 DEF Owed, Owes
<1>2. Handlings /\ Returned /\ [Next]_vars => Returned'
  BY StepReturned
<1> QED
  BY <1>1, <1>2, InitReturned, AlwaysWaiting, PTL DEF Spec

-----------------------------------------------------------------------------
(* Requests that come one after the other.  What has happened to a request *)
(* is not undone, so a request that may leave a close behind remains one.  *)
LEMMA StepGrows ==
  ASSUME Handlings, [Next]_vars, NEW q \in Request
  PROVE  /\ cause[q] # None => cause'[q] = cause[q]
         /\ met[q] \subseteq met'[q]
         /\ pc[q] # "idle" => endpoint'[q] = endpoint[q]
<1>1. TypeOK
  BY DEF Handlings
<1>2. ASSUME NEW r \in Request, NEW e \in Endpoints, Arrive(r, e) \/ ArriveWithWrongMethod(r, e)
      PROVE  /\ cause'[q] = cause[q] /\ met[q] \subseteq met'[q]
             /\ pc[q] # "idle" => endpoint'[q] = endpoint[q]
  <2>1. pc[r] = "idle" /\ met[r] = {} /\ cause' = cause
    BY <1>2 DEF Handlings, Handling, Arrive, ArriveWithWrongMethod
  <2>2. q # r => endpoint'[q] = endpoint[q]
    BY <1>1, <1>2 DEF TypeOK, Arrive, ArriveWithWrongMethod
  <2>3. CASE Arrive(r, e)
    <3>1. q # r => met'[q] \in {met[q], met[q] \cup {r}}
      BY <2>3 DEF Arrive
    <3> QED
      BY <2>1, <2>2, <3>1
  <2>4. CASE ArriveWithWrongMethod(r, e)
    <3>1. met' = met
      BY <2>4 DEF ArriveWithWrongMethod
    <3> QED
      BY <2>1, <2>2, <3>1
  <2> QED
    BY <1>2, <2>3, <2>4
<1>3. ASSUME NEW r \in Request, LoseConnection(r) \/ FailQuery(r) \/ Refused(r)
      PROVE  /\ cause[q] # None => cause'[q] = cause[q]
             /\ met' = met /\ endpoint' = endpoint
  BY <1>3, LostHandling DEF Alike
<1>4. ASSUME NEW r \in Request, Check(r)
      PROVE  /\ cause[q] # None => cause'[q] = cause[q]
             /\ met' = met /\ endpoint' = endpoint
  <2>1. At(r, "check") /\ endpoint' = endpoint /\ met' = met
    BY <1>4 DEF Check
  <2>2. cause[r] = None
    BY <2>1, Going, CleanupCalls
  <2> QED
    BY <1>1, <1>4, <2>1, <2>2 DEF Check, Throw, TypeOK
<1>5. ASSUME NEW r \in Request,
             \/ Enter(r) \/ Try(r) \/ End(r) \/ Connect(r) \/ Query(r) \/ Close(r)
             \/ Release(r) \/ Respond(r)
      PROVE  cause' = cause /\ met' = met /\ endpoint' = endpoint
  BY <1>5 DEF Enter, Try, End, Connect, Query, Close, Release, Respond
<1>6. CASE Opened \/ Closed \/ UNCHANGED vars
  BY <1>6 DEF Opened, Closed, vars
<1> QED
  BY <1>2, <1>3, <1>4, <1>5, <1>6 DEF Next, Proceed

LEMMA LeavesCloseStays ==
  ASSUME Handlings, [Next]_vars, NEW q \in Request, LeavesClose(q)
  PROVE  LeavesClose(q)'
<1>1. pc[q] # "idle"
  BY NoneAssumption DEF Handlings, Handling, LeavesClose
<1>2. met[q] \subseteq Request
  BY DEF Handlings, TypeOK
<1> QED
  BY <1>1, <1>2, StepGrows, NoneAssumption DEF LeavesClose

Innocent == \A q \in Request : ~LeavesClose(q)

LEMMA InnocentBefore ==
  ASSUME Handlings, [Next]_vars, Innocent'
  PROVE  Innocent
BY LeavesCloseStays DEF Innocent

(* Requests that run at once have met, whoever closes under another has    *)
(* met it, and a connection closes because someone waits for that, unless  *)
(* a close was left behind.                                                *)
Meeting ==
  /\ \A r, q \in Request : r # q /\ pc[r] = "running" /\ pc[q] = "running" => q \in met[r]
  /\ \A r \in Request : waits[r] = "open" => met[r] # {}
  /\ Innocent => ~late
  /\ Innocent /\ conn = "disconnecting" => \E q \in Request : waits[q] = "close"

(* A request that runs alone, where no close was left behind.              *)
Lone(r) == pc[r] = "running" /\ met[r] = {} /\ Innocent

(* Its place in the handler tells it what has become of the connection.    *)
Fits(r, phase) ==
  /\ phase = "open" => conn # "disconnected"
  /\ phase = "closed" => conn \notin {"connecting", "connected"}
  /\ waits[r] = "close" => phase = "closed"

Settled(r) ==
  Lone(r) =>
    /\ cause[r] = None => \E phase \in Phase : Path(r, phase) /\ Fits(r, phase)
    /\ cause[r] = "check" /\ todo[r] # <<>> /\ Head(todo[r]) = "release" =>
         conn \notin {"connecting", "connected"}

Sequence ==
  /\ Meeting
  /\ \A r \in Request : Settled(r)
  /\ SequentialRequestsKeepConnection

LEMMA InitSequence == Init => Sequence
BY NoneAssumption
   DEF Init, Sequence, Meeting, Settled, Lone, LeavesClose, SequentialRequestsKeepConnection

LEMMA LoneConnection ==
  ASSUME Handlings, Waiting, Meeting, NEW r \in Request, Lone(r)
  PROVE  /\ \A q \in Request \ {r} : pc[q] # "running" /\ waits[q] = None
         /\ waits[r] = None => conn \in {"disconnected", "connected"}
<1>1. \A q \in Request \ {r} : pc[q] # "running"
  BY DEF Meeting, Lone
<1>2. \A q \in Request \ {r} : waits[q] = None
  BY <1>1 DEF Handlings, Handling
<1>3. ASSUME waits[r] = None PROVE conn \notin {"connecting", "disconnecting"}
  <2>1. \A q \in Request : waits[q] = None
    BY <1>2, <1>3
  <2> QED
    BY <2>1, NoneAssumption DEF Waiting, Meeting, Lone
<1>4. conn \in {"disconnected", "connecting", "connected", "disconnecting"}
  BY DEF Handlings, TypeOK
<1> QED
  BY <1>1, <1>2, <1>3, <1>4

(* Only a userinfo request releases, and alone it has nothing to release.  *)
LEMMA LoneRelease ==
  ASSUME Handlings, Waiting, Sequence, NEW r \in Request, Release(r)
  PROVE  /\ endpoint[r] = "userinfo"
         /\ Innocent => Lone(r) /\ conn = "disconnected"
<1>1. At(r, "release") /\ endpoint' = endpoint
  BY DEF Release
<1>2. pc[r] = "running" /\ waits[r] = None /\ todo[r] # <<>> /\ Head(todo[r]) = "release" /\ Handling(r)
  BY <1>1 DEF At, Handlings
<1>3. endpoint[r] = "userinfo"
  <2>1. CASE cause[r] # None
    BY <1>1, <2>1, Going DEF Cleanups
  <2>2. CASE cause[r] = None
    <3>1. PICK phase \in Phase : Path(r, phase)
      BY <1>2, <2>2 DEF Handling
    <3>2. PICK u : Moves("release", Spot(cleanup[r], phase), u, endpoint[r])
      BY <1>1, <2>2, <3>1, Going
    <3> QED
      BY <3>2 DEF Moves
  <2> QED
    BY <2>1, <2>2
<1>4. ASSUME Innocent PROVE Lone(r) /\ conn = "disconnected"
  <2>1. Lone(r) /\ cause[r] \in {None, "check"}
    BY <1>2, <1>3, <1>4 DEF Lone, Innocent, LeavesClose, Handlings, TypeOK
  <2>2. conn \in {"disconnected", "connected"}
    BY <1>2, <2>1, LoneConnection DEF Sequence
  <2>3. conn # "connected"
    <3>1. CASE cause[r] = "check"
      BY <1>2, <2>1, <3>1 DEF Sequence, Settled
    <3>2. CASE cause[r] = None
      <4>1. PICK phase \in Phase : Path(r, phase) /\ Fits(r, phase)
        BY <2>1, <3>2 DEF Sequence, Settled
      <4>2. PICK u : Moves("release", Spot(cleanup[r], phase), u, endpoint[r])
        BY <1>1, <3>2, <4>1, Going
      <4> QED
        BY <4>1, <4>2 DEF Moves, Spot, Fits
    <3> QED
      BY <2>1, <3>1, <3>2
  <2> QED
    BY <2>1, <2>2, <2>3
<1> QED
  BY <1>3, <1>4

LEMMA StepMeeting == Handlings /\ Waiting /\ Sequence /\ [Next]_vars => Meeting'
<1> SUFFICES ASSUME Handlings, Waiting, Sequence, [Next]_vars PROVE Meeting'
  OBVIOUS
<1>1. TypeOK /\ Meeting /\ (Innocent' => Innocent)
  BY InnocentBefore DEF Handlings, Sequence
<1>2. ASSUME pc' = pc \/ (\E r \in Request : Respond(r)), met' = met, waits' = waits,
             late' = late, conn' \in {conn, "connecting", "disconnected"}
      PROVE  Meeting'
  <2>1. \A r \in Request : pc'[r] = "running" => pc[r] = "running"
    BY <1>1, <1>2 DEF TypeOK, Respond
  <2> QED
    BY <1>1, <1>2, <2>1 DEF Meeting
<1>3. ASSUME NEW r \in Request, NEW e \in Endpoints, Arrive(r, e)
      PROVE  Meeting'
  <2>1. \A p, q \in Request : p # q /\ pc'[p] = "running" /\ pc'[q] = "running" => q \in met'[p]
    BY <1>1, <1>3 DEF TypeOK, Meeting, Arrive
  <2>2. \A q \in Request : met[q] # {} => met'[q] # {}
    BY <1>1, <1>3, StepGrows DEF TypeOK
  <2> QED
    BY <1>1, <1>3, <2>1, <2>2 DEF Meeting, Arrive
<1>4. ASSUME NEW r \in Request, NEW e \in Endpoints, ArriveWithWrongMethod(r, e)
      PROVE  Meeting'
  <2>1. \A q \in Request : pc'[q] = "running" => pc[q] = "running"
    BY <1>1, <1>4 DEF TypeOK, ArriveWithWrongMethod
  <2> QED
    BY <1>1, <1>4, <2>1 DEF Meeting, ArriveWithWrongMethod
<1>5. CASE Opened
  <2>1. Innocent => ~late
    BY <1>1 DEF Meeting
  <2>2. \A q \in Request : /\ waits[q] = "open" => waits'[q] = "close"
                           /\ waits'[q] # "open"
    BY <1>1, <1>5, NoneAssumption DEF TypeOK, Opened
  <2>3. ~late' /\ (conn' = "disconnecting" => late \/ \E q \in Request : waits[q] = "open")
        /\ pc' = pc /\ met' = met
    BY <1>5 DEF Opened
  <2> QED
    BY <1>1, <2>1, <2>2, <2>3 DEF Meeting
<1>6. CASE Closed
  BY <1>1, <1>6, NoneAssumption DEF TypeOK, Meeting, Closed
<1>7. ASSUME NEW r \in Request, Connect(r) PROVE Meeting'
  <2>1. /\ \A q \in Request : waits'[q] = "open" => waits[q] = "open"
        /\ \A q \in Request : waits[q] = "close" => waits'[q] = "close"
        /\ conn' = "disconnecting" => conn = "disconnecting"
        /\ late' = late /\ pc' = pc /\ met' = met
    BY <1>1, <1>7, NoneAssumption DEF TypeOK, Connect, Wait, At
  <2> QED
    BY <1>1, <2>1 DEF Meeting
<1>8. ASSUME NEW r \in Request, Close(r) PROVE Meeting'
  <2>1. /\ waits[r] = None /\ pc[r] = "running" /\ late' = late /\ pc' = pc /\ met' = met
        /\ waits'[r] = (IF conn = "disconnected" THEN None
                        ELSE IF conn = "connecting" THEN "open" ELSE "close")
        /\ \A q \in Request \ {r} : waits'[q] = waits[q]
        /\ conn' = "disconnecting" => conn \in {"connected", "disconnecting"}
    BY <1>1, <1>8 DEF TypeOK, Close, Wait, At
  <2>2. conn = "connecting" => met[r] # {}
    <3>1. conn = "connecting" => \E q \in Request \ {r} : pc[q] = "running"
      BY <2>1, NoneAssumption DEF Waiting, Handlings, Handling
    <3> QED
      BY <2>1, <3>1, <1>1 DEF Meeting
  <2>3. \A q \in Request : waits'[q] = "open" => met'[q] # {}
    BY <1>1, <2>1, <2>2, NoneAssumption DEF Meeting
  <2>4. conn' = "disconnecting" => waits'[r] = "close"
    BY <2>1
  <2> QED
    BY <1>1, <2>1, <2>3, <2>4 DEF Meeting
<1>9. ASSUME NEW r \in Request, Release(r) PROVE Meeting'
  <2>1. Innocent => conn = "disconnected"
    BY <1>9, LoneRelease
  <2> QED
    BY <1>1, <1>9, <2>1 DEF Meeting, Release
<1>10. ASSUME NEW r \in Request,
              \/ Enter(r) \/ Try(r) \/ End(r) \/ Check(r) \/ Query(r) \/ LoseConnection(r)
              \/ FailQuery(r) \/ Respond(r)
       PROVE  Meeting'
  BY <1>2, <1>10 DEF Enter, Try, End, Check, Query, LoseConnection, FailQuery, Respond
<1>11. ASSUME NEW r \in Request, Refused(r) PROVE Meeting'
  BY <1>1, <1>11, NoneAssumption DEF TypeOK, Meeting, Refused, Wait
<1>12. CASE UNCHANGED vars
  BY <1>2, <1>12 DEF vars
<1> QED
  BY <1>3, <1>4, <1>5, <1>6, <1>7, <1>8, <1>9, <1>10, <1>11, <1>12 DEF Next, Proceed

(* A step of a request that runs alone.                                    *)
LEMMA LoneCallSettles ==
  ASSUME Handlings, Waiting, Sequence, NEW r \in Request, Lone(r), cause[r] = None,
         NEW call \in {"check", "connect", "query", "close", "release"}, At(r, call),
         Go(r), pc' = pc, endpoint' = endpoint, cleanup' = cleanup, cause' = cause,
         call \in {"check", "query", "release"} => conn' = conn /\ waits'[r] = None,
         call = "connect" => conn' # "disconnected" /\ waits'[r] # "close",
         call = "close" => conn' \notin {"connecting", "connected"}
  PROVE  \E phase \in Phase : Path(r, phase)' /\ Fits(r, phase)'
<1>1. PICK phase \in Phase : Path(r, phase) /\ Fits(r, phase)
  BY DEF Sequence, Settled
<1>2. PICK u \in Place(endpoint[r]) :
        /\ Moves(call, Spot(cleanup[r], phase), u, endpoint[r])
        /\ todo'[r] = Tail(todo[r]) /\ cleanup'[r] = u.stack => Path(r, u.phase)'
  BY <1>1, Going
<1>3. u.stack = cleanup[r] /\ u.phase \in Phase
  BY <1>2 DEF Moves, Spot, Place
<1>4. todo'[r] = Tail(todo[r])
  BY DEF Handlings, TypeOK, Go
<1>5. Path(r, u.phase)'
  BY <1>2, <1>3, <1>4
<1>6. CASE call \in {"check", "query", "release"}
  <2>1. u.phase = phase
    BY <1>2, <1>6 DEF Moves, Spot
  <2> QED
    BY <1>1, <1>3, <1>5, <1>6, <2>1, NoneAssumption DEF Fits
<1>7. CASE call = "connect"
  <2>1. u.phase = "open"
    BY <1>2, <1>7 DEF Moves, Spot
  <2> QED
    BY <1>3, <1>5, <1>7, <2>1 DEF Fits
<1>8. CASE call = "close"
  <2>1. u.phase = "closed"
    BY <1>2, <1>8 DEF Moves, Spot
  <2> QED
    BY <1>3, <1>5, <1>8, <2>1 DEF Fits
<1> QED
  BY <1>6, <1>7, <1>8

LEMMA SettledStays ==
  ASSUME Handlings, Waiting, Sequence, [Next]_vars, NEW r \in Request, Lone(r),
         Alike(r), conn' = conn
  PROVE  Settled(r)'
<1>1. ASSUME NEW phase, Path(r, phase) /\ Fits(r, phase) PROVE Path(r, phase)' /\ Fits(r, phase)'
  BY <1>1 DEF Path, Fits, Alike
<1> QED
  BY <1>1 DEF Sequence, Settled, Alike

LEMMA LoneBefore ==
  ASSUME Handlings, [Next]_vars, NEW r \in Request, Lone(r)', pc[r] = "running"
  PROVE  Lone(r)
BY InnocentBefore, StepGrows DEF Lone, Handlings, TypeOK

(* What others do is not done while r runs alone.                          *)
LEMMA OthersSettle ==
  ASSUME Handlings, Waiting, Sequence, [Next]_vars, NEW r \in Request, NEW q \in Request, q # r,
         Proceed(q) \/ Refused(q) \/ \E e \in Endpoints : Arrive(q, e) \/ ArriveWithWrongMethod(q, e)
  PROVE  Settled(r)'
<1> SUFFICES ASSUME Lone(r)' PROVE Settled(r)'
  BY DEF Settled
<1>1. TypeOK
  BY DEF Handlings
<1>2. ASSUME NEW e \in Endpoints, Arrive(q, e) PROVE FALSE
  <2>1. pc[r] = "running"
    BY <1>1, <1>2 DEF TypeOK, Arrive, Lone
  <2>2. q \in met'[r]
    BY <1>2, <2>1 DEF Arrive
  <2> QED
    BY <2>2 DEF Lone
<1>3. ASSUME NEW e \in Endpoints, ArriveWithWrongMethod(q, e) PROVE Settled(r)'
  <2>1. Alike(r) /\ conn' = conn
    BY <1>1, <1>3 DEF TypeOK, ArriveWithWrongMethod, Alike
  <2>2. Lone(r)
    BY <2>1, LoneBefore DEF Alike, Lone
  <2> QED
    BY <2>1, <2>2, SettledStays
<1>4. ASSUME Proceed(q) \/ Refused(q) PROVE FALSE
  <2>1. pc[q] = "running"
    BY <1>4, NoneAssumption
       DEF Proceed, Enter, Try, End, Check, Connect, Query, LoseConnection, FailQuery, Close, Release,
           Respond, At, Refused, Handlings, Handling
  <2>2. pc'[r] = pc[r]
    BY <1>1, <1>4
       DEF TypeOK, Proceed, Enter, Try, End, Check, Connect, Query, LoseConnection, FailQuery, Close,
           Release, Respond, Refused
  <2>3. Lone(r)
    BY <2>2, LoneBefore DEF Lone
  <2> QED
    BY <2>1, <2>3, LoneConnection DEF Sequence
<1> QED
  BY <1>2, <1>3, <1>4

LEMMA CallSettles ==
  ASSUME Handlings, Waiting, Sequence, [Next]_vars, NEW r \in Request, Lone(r),
         Check(r) \/ Connect(r) \/ Query(r) \/ Close(r) \/ Release(r)
  PROVE  Settled(r)'
<1>1. TypeOK /\ pc[r] = "running" /\ waits[r] = None /\ conn \in {"disconnected", "connected"}
  BY LoneConnection DEF Handlings, Sequence, Check, Connect, Query, Close, Release, At
<1>2. CASE Check(r) /\ Throw(r, "check")
  <2>1. At(r, "check") /\ endpoint' = endpoint /\ conn' = conn
    BY <1>2 DEF Check
  <2>2. cause[r] = None
    BY <2>1, Going, CleanupCalls
  <2>3. todo'[r] = cleanup[r] /\ cause'[r] = "check"
    BY <1>1, <1>2 DEF TypeOK, Throw
  <2>4. PICK phase \in Phase : Path(r, phase) /\ Fits(r, phase)
    BY <1>2, <2>2 DEF Sequence, Settled
  <2>5. PICK u : Moves("check", Spot(cleanup[r], phase), u, endpoint[r])
    BY <2>1, <2>2, <2>4, Going
  <2>6. ASSUME cleanup[r] # <<>>, Head(cleanup[r]) = "release" PROVE phase = "closed"
    BY <2>5, <2>6 DEF Moves, Spot, ClosesOnThrow
  <2> QED
    BY <2>1, <2>3, <2>4, <2>6, NoneAssumption DEF Settled, Fits
<1>3. CASE Go(r) /\ cleanup' = cleanup /\ cause' = cause
  <2>1. PICK call \in {"check", "connect", "query", "close", "release"} :
          /\ At(r, call) /\ pc' = pc /\ endpoint' = endpoint
          /\ call \in {"check", "query", "release"} => waits' = waits
          /\ call \in {"check", "query"} => conn' = conn
          /\ call = "connect" => Connect(r)
          /\ call = "close" => Close(r)
          /\ call = "release" => Release(r)
    BY DEF Check, Connect, Query, Close, Release
  <2>2. call = "release" => conn' = conn /\ conn = "disconnected"
    BY <2>1, LoneRelease DEF Release, Lone
  <2>3. call = "connect" => conn' # "disconnected" /\ waits'[r] # "close"
    BY <1>1, <2>1, NoneAssumption DEF TypeOK, Connect, Wait
  <2>4. call = "close" => conn' \notin {"connecting", "connected"}
    BY <1>1, <2>1 DEF Close
  <2>5. CASE cause[r] = None
    <3>1. \E phase \in Phase : Path(r, phase)' /\ Fits(r, phase)'
      BY <1>1, <1>3, <2>1, <2>2, <2>3, <2>4, <2>5, LoneCallSettles
    <3> QED
      BY <1>3, <2>5, <3>1, NoneAssumption DEF Settled
  <2>6. CASE cause[r] # None
    <3>1. call \in {"close", "release"}
      BY <2>1, <2>6, Going, CleanupCalls
    <3>2. conn' \notin {"connecting", "connected"}
      BY <2>2, <2>4, <3>1
    <3> QED
      BY <1>3, <2>6, <3>2 DEF Settled
  <2> QED
    BY <2>5, <2>6
<1> QED
  BY <1>2, <1>3 DEF Check, Connect, Query, Close, Release

LEMMA BlockSettles ==
  ASSUME Handlings, Waiting, Sequence, [Next]_vars, NEW r \in Request, Lone(r),
         Enter(r) \/ Try(r) \/ End(r)
  PROVE  Settled(r)'
<1>1. /\ cause[r] = None /\ cause' = cause /\ conn' = conn /\ waits' = waits
      /\ \A phase \in Phase : Path(r, phase) => Path(r, phase)'
  BY EnterHandling, TryHandling, EndHandling DEF Enter, Try, End
<1>2. PICK phase \in Phase : Path(r, phase) /\ Fits(r, phase)
  BY <1>1 DEF Sequence, Settled
<1> QED
  BY <1>1, <1>2, NoneAssumption DEF Settled, Fits

LEMMA ArriveSettles ==
  ASSUME Handlings, NEW r \in Request, NEW e \in Endpoints,
         Arrive(r, e) \/ ArriveWithWrongMethod(r, e)
  PROVE  Settled(r)'
<1>1. TypeOK /\ waits[r] = None /\ cause[r] = None
  BY DEF Handlings, Handling, Arrive, ArriveWithWrongMethod
<1>2. CASE Arrive(r, e)
  <2>1. Path(r, "fresh")'
    BY <1>2, ArriveHandling
  <2>2. waits' = waits /\ cause' = cause
    BY <1>2 DEF Arrive
  <2> QED
    BY <1>1, <2>1, <2>2, NoneAssumption DEF Settled, Fits, Phase
<1>3. CASE ArriveWithWrongMethod(r, e)
  <2>1. pc'[r] # "running"
    BY <1>1, <1>3 DEF ArriveWithWrongMethod, TypeOK
  <2> QED
    BY <2>1 DEF Settled, Lone
<1> QED
  BY <1>2, <1>3

LEMMA OwnSettle ==
  ASSUME Handlings, Waiting, Sequence, [Next]_vars, NEW r \in Request,
         Proceed(r) \/ Refused(r) \/ \E e \in Endpoints : Arrive(r, e) \/ ArriveWithWrongMethod(r, e)
  PROVE  Settled(r)'
<1> SUFFICES ASSUME Lone(r)' PROVE Settled(r)'
  BY DEF Settled
<1>1. CASE pc[r] # "running"
  <2>1. \E e \in Endpoints : Arrive(r, e) \/ ArriveWithWrongMethod(r, e)
    BY <1>1, NoneAssumption
       DEF Proceed, Enter, Try, End, Check, Connect, Query, LoseConnection, FailQuery, Close, Release,
           Respond, At, Refused, Handlings, Handling
  <2> QED
    BY <2>1, ArriveSettles
<1>2. CASE pc[r] = "running"
  <2>1. Lone(r)
    BY <1>2, LoneBefore
  <2>2. CASE \E e \in Endpoints : Arrive(r, e) \/ ArriveWithWrongMethod(r, e)
    BY <2>2, ArriveSettles
  <2>3. CASE Enter(r) \/ Try(r) \/ End(r)
    BY <2>1, <2>3, BlockSettles
  <2>4. CASE Check(r) \/ Connect(r) \/ Query(r) \/ Close(r) \/ Release(r)
    BY <2>1, <2>4, CallSettles
  <2>5. CASE LoseConnection(r) \/ FailQuery(r) \/ Refused(r)
    <3>1. cause'[r] \notin {None, "check"}
      BY <2>5, LostHandling, NoneAssumption
    <3> QED
      BY <3>1 DEF Settled
  <2>6. CASE Respond(r)
    <3>1. pc'[r] # "running"
      BY <2>6 DEF Respond, Handlings, TypeOK
    <3> QED
      BY <3>1 DEF Settled, Lone
  <2> QED
    BY <2>2, <2>3, <2>4, <2>5, <2>6 DEF Proceed
<1> QED
  BY <1>1, <1>2

(* The connection opens, and closes, for whom it has been opened, closed.  *)
LEMMA EventSettles ==
  ASSUME Handlings, Waiting, Sequence, [Next]_vars, NEW r \in Request, Opened \/ Closed
  PROVE  Settled(r)'
<1> SUFFICES ASSUME Lone(r)' PROVE Settled(r)'
  BY DEF Settled
<1>1. /\ TypeOK /\ pc' = pc /\ endpoint' = endpoint /\ todo' = todo /\ cleanup' = cleanup
      /\ cause' = cause
  BY DEF Handlings, Opened, Closed
<1>2. Lone(r)
  BY <1>1, LoneBefore DEF Lone
<1>3. Meeting /\ \A q \in Request \ {r} : waits[q] = None
  BY <1>2, LoneConnection DEF Sequence
<1>4. ASSUME NEW phase \in Phase, Path(r, phase), Fits(r, phase)
      PROVE  Path(r, phase)' /\ Fits(r, phase)'
  <2>1. Path(r, phase)'
    BY <1>1, <1>4 DEF Path
  <2>2. CASE Opened
    <3>1. ~late /\ \A q \in Request : waits[q] # "open"
      BY <1>2, <1>3, NoneAssumption DEF Meeting, Lone
    <3>2. conn = "connecting" /\ conn' = "connected" /\ waits'[r] \in {None, waits[r]}
      BY <1>1, <2>2, <3>1 DEF Opened
    <3> QED
      BY <1>4, <2>1, <3>2, NoneAssumption DEF Fits
  <2>3. CASE Closed
    <3>1. conn = "disconnecting" /\ conn' = "disconnected" /\ waits'[r] # "close"
      BY <2>3, NoneAssumption DEF Closed
    <3>2. waits[r] = "close"
      BY <1>2, <1>3, <3>1, NoneAssumption DEF Meeting, Lone
    <3> QED
      BY <1>4, <2>1, <3>1, <3>2 DEF Fits
  <2> QED
    BY <2>2, <2>3
<1>5. cause[r] = "check" /\ todo[r] # <<>> /\ Head(todo[r]) = "release" =>
        conn' \notin {"connecting", "connected"}
  BY <1>2 DEF Sequence, Settled, Opened, Closed
<1>6. cause[r] = None => \E phase \in Phase : Path(r, phase) /\ Fits(r, phase)
  BY <1>2 DEF Sequence, Settled
<1> QED
  BY <1>1, <1>4, <1>5, <1>6 DEF Settled

LEMMA StepSettled ==
  ASSUME Handlings, Waiting, Sequence, [Next]_vars, NEW r \in Request
  PROVE  Settled(r)'
<1>1. CASE Opened \/ Closed
  BY <1>1, EventSettles
<1>2. ASSUME NEW q \in Request,
             Proceed(q) \/ Refused(q) \/ \E e \in Endpoints : Arrive(q, e) \/ ArriveWithWrongMethod(q, e)
      PROVE  Settled(r)'
  BY <1>2, OwnSettle, OthersSettle
<1>3. CASE UNCHANGED vars
  <2>1. Alike(r) /\ conn' = conn /\ (Lone(r)' => Lone(r))
    BY <1>3, LoneBefore DEF vars, Alike, Lone
  <2> QED
    BY <2>1, SettledStays DEF Settled
<1> QED
  BY <1>1, <1>2, <1>3 DEF Next

(* A request that runs alone has the connection it has opened.             *)
LEMMA StepKeepsConnection ==
  ASSUME Handlings, Waiting, Sequence, [Next]_vars
  PROVE  SequentialRequestsKeepConnection'
<1> SUFFICES ASSUME NEW r \in Request, cause'[r] = "connection", met'[r] = {},
                    \A q \in Request \ {r} : ~LeavesClose(q)'
             PROVE  FALSE
  BY DEF SequentialRequestsKeepConnection
<1>1. TypeOK /\ met[r] = {} /\ \A q \in Request \ {r} : ~LeavesClose(q)
  BY StepGrows, LeavesCloseStays DEF Handlings, TypeOK
<1>2. CASE cause[r] = "connection"
  BY <1>1, <1>2 DEF Sequence, SequentialRequestsKeepConnection
<1>3. CASE cause[r] # "connection"
  <2>1. LoseConnection(r)
    <3>1. cause[r] = None /\ cause'[r] = "connection"
      BY <1>3, StepGrows, NoneAssumption
    <3>2. cause'[r] # cause[r] /\ cause'[r] \notin {"check", "database"}
      BY <3>1, NoneAssumption
    <3>3. ~(Opened \/ Closed \/ UNCHANGED vars)
      BY <3>2 DEF Opened, Closed, vars
    <3>4. PICK q \in Request :
            \/ \E e \in Endpoints : Arrive(q, e) \/ ArriveWithWrongMethod(q, e)
            \/ Proceed(q) \/ Refused(q)
      BY <3>3 DEF Next
    <3>5. \A why : Throw(q, why) => cause'[r] \in {cause[r], why} /\ (why = "connection" => q = r)
      BY <1>1, <3>2 DEF TypeOK, Throw
    <3>6. ~\E e \in Endpoints : Arrive(q, e) \/ ArriveWithWrongMethod(q, e)
      BY <3>2 DEF Arrive, ArriveWithWrongMethod
    <3>7. ~(Enter(q) \/ Try(q) \/ End(q) \/ Connect(q) \/ Query(q) \/ Close(q) \/ Release(q) \/ Respond(q))
      BY <3>2 DEF Enter, Try, End, Connect, Query, Close, Release, Respond
    <3>8. ~(Check(q) \/ FailQuery(q) \/ Refused(q))
      BY <3>2, <3>5 DEF Check, FailQuery, Refused
    <3>9. LoseConnection(q) /\ q = r
      BY <3>4, <3>5, <3>6, <3>7, <3>8 DEF Proceed, LoseConnection
    <3> QED
      BY <3>9
  <2>2. cause[r] = None /\ pc[r] = "running" /\ waits[r] = None /\ At(r, "query") /\ endpoint' = endpoint
    BY <2>1, LostHandling DEF LoseConnection, At
  <2>3. Lone(r)
    BY <1>1, <2>2, NoneAssumption DEF Lone, Innocent, LeavesClose
  <2>4. conn = "disconnected"
    BY <2>1, <2>2, <2>3, LoneConnection DEF Sequence, LoseConnection
  <2>5. PICK phase \in Phase : Path(r, phase) /\ Fits(r, phase)
    BY <2>2, <2>3 DEF Sequence, Settled
  <2>6. PICK u : Moves("query", Spot(cleanup[r], phase), u, endpoint[r])
    BY <2>2, <2>5, Going
  <2> QED
    BY <2>4, <2>5, <2>6 DEF Moves, Spot, Fits
<1> QED
  BY <1>2, <1>3

LEMMA AlwaysSequence == Spec => [](Handlings /\ Waiting /\ Sequence)
<1>1. (Handlings /\ Waiting) /\ Sequence /\ [Next]_vars => Sequence'
  BY StepMeeting, StepSettled, StepKeepsConnection DEF Sequence
<1> QED
  BY <1>1, InitSequence, AlwaysWaiting, PTL DEF Spec

(* Requests that come one after the other keep their connection: one that  *)
(* meets no other loses it only to a close that an earlier userinfo        *)
(* request has left behind.                                                *)
THEOREM SequentialRequestsKeepTheirConnection == Spec => []SequentialRequestsKeepConnection
<1>1. Sequence => SequentialRequestsKeepConnection
  BY DEF Sequence
<1> QED
  BY <1>1, AlwaysSequence, PTL

-----------------------------------------------------------------------------
(* Who waits to close a connection that is opening has met the one that    *)
(* opens it, and is left alone only when that one was refused.             *)
Refusals ==
  \A r \in Request : waits[r] = "open" =>
    /\ conn \in {"connecting", "disconnected"}
    /\ conn = "disconnected" => \E q \in met[r] : cause[q] = "database"

LEMMA InitRefusals == Init => Refusals
BY NoneAssumption DEF Init, Refusals

LEMMA RefusalRemembered ==
  ASSUME Handlings, [Next]_vars, NEW r \in Request, \E q \in met[r] : cause[q] = "database"
  PROVE  \E q \in met'[r] : cause'[q] = "database"
<1>1. met[r] \subseteq Request
  BY DEF Handlings, TypeOK
<1> QED
  BY <1>1, StepGrows, NoneAssumption

LEMMA StepRefusals == Handlings /\ Waiting /\ Sequence /\ Refusals /\ [Next]_vars => Refusals'
<1> SUFFICES ASSUME Handlings, Waiting, Sequence, Refusals, [Next]_vars PROVE Refusals'
  OBVIOUS
<1>1. TypeOK
  BY DEF Handlings
<1>2. ASSUME conn' = conn, waits' = waits PROVE Refusals'
  BY <1>2, RefusalRemembered DEF Refusals
<1>3. CASE Opened
  <2>1. \A r \in Request : waits'[r] # "open"
    BY <1>1, <1>3, NoneAssumption DEF TypeOK, Opened
  <2> QED
    BY <2>1 DEF Refusals
<1>4. CASE Closed
  <2>1. \A r \in Request : waits'[r] = "open" => waits[r] = "open"
    BY <1>1, <1>4, NoneAssumption DEF TypeOK, Closed
  <2> QED
    BY <1>4, <2>1 DEF Refusals, Closed
<1>5. ASSUME NEW q \in Request, Refused(q) PROVE Refusals'
  <2>1. SUFFICES ASSUME NEW r \in Request, waits'[r] = "open"
                 PROVE  q \in met[r] /\ cause'[q] = "database" /\ conn' = "disconnected"
                        /\ met' = met
    BY DEF Refusals
  <2>2. r # q /\ waits[r] = "open" /\ waits[q] = "connect"
    BY <1>1, <1>5, <2>1, NoneAssumption DEF TypeOK, Refused, Wait
  <2>3. pc[r] = "running" /\ pc[q] = "running"
    BY <2>2, NoneAssumption DEF Handlings, Handling
  <2>4. q \in met[r]
    BY <2>2, <2>3 DEF Sequence, Meeting
  <2> QED
    BY <1>1, <1>5, <2>4 DEF TypeOK, Refused, Throw
<1>6. ASSUME NEW q \in Request, Connect(q) PROVE Refusals'
  <2>1. CASE conn = "disconnected"
    <3>1. conn' = "connecting"
      BY <1>6, <2>1 DEF Connect
    <3> QED
      BY <3>1 DEF Refusals
  <2>2. CASE conn # "disconnected"
    BY <1>2, <1>6, <2>2 DEF Connect
  <2> QED
    BY <2>1, <2>2
<1>7. ASSUME NEW q \in Request, Close(q) PROVE Refusals'
  <2>1. SUFFICES ASSUME NEW r \in Request, waits'[r] = "open"
                 PROVE  /\ conn' \in {"connecting", "disconnected"}
                        /\ conn' = "disconnected" => \E p \in met'[r] : cause'[p] = "database"
    BY DEF Refusals
  <2>2. CASE r = q
    BY <1>1, <1>7, <2>1, <2>2, NoneAssumption DEF TypeOK, Close, Wait
  <2>3. CASE r # q
    <3>1. waits[r] = "open"
      BY <1>1, <1>7, <2>1, <2>3 DEF TypeOK, Close, Wait
    <3>2. conn \in {"connecting", "disconnected"} /\ conn' = conn
      BY <1>7, <3>1 DEF Refusals, Close
    <3> QED
      BY <3>1, <3>2, RefusalRemembered DEF Refusals
  <2> QED
    BY <2>2, <2>3
<1>8. ASSUME NEW q \in Request, Release(q) PROVE Refusals'
  <2>1. CASE conn = "connected"
    BY <1>8, <2>1 DEF Refusals, Release
  <2>2. CASE conn # "connected"
    BY <1>2, <1>8, <2>2 DEF Release
  <2> QED
    BY <2>1, <2>2
<1>9. ASSUME NEW q \in Request,
             \/ \E e \in Endpoints : Arrive(q, e) \/ ArriveWithWrongMethod(q, e)
             \/ Enter(q) \/ Try(q) \/ End(q) \/ Check(q) \/ Query(q) \/ LoseConnection(q)
             \/ FailQuery(q) \/ Respond(q)
      PROVE  Refusals'
  BY <1>2, <1>9 DEF Arrive, ArriveWithWrongMethod, Enter, Try, End, Check, Query, LoseConnection,
                    FailQuery, Respond
<1>10. CASE UNCHANGED vars
  BY <1>2, <1>10 DEF vars
<1> QED
  BY <1>3, <1>4, <1>5, <1>6, <1>7, <1>8, <1>9, <1>10 DEF Next, Proceed

(* A request waits in vain only for a connection that another request, one *)
(* it has met, was refused; whoever runs alone is answered.                *)
THEOREM OnlyRefusalsStrand == Spec => []OnlyRefusalStrands
<1>1. (Handlings /\ Waiting /\ Sequence) /\ Refusals /\ [Next]_vars => Refusals'
  BY StepRefusals
<1>2. Refusals => OnlyRefusalStrands
  BY DEF Refusals, OnlyRefusalStrands, Stranded
<1> QED
  BY <1>1, <1>2, InitRefusals, AlwaysSequence, PTL DEF Spec

=============================================================================
