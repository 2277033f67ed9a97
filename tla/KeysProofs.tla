------------------------------ MODULE KeysProofs ------------------------------
(***************************************************************************)
(* Theorems about Keys, for any number of processes, calls and algorithms, *)
(* and whatever the database holds at the start.                           *)
(***************************************************************************)
EXTENDS Keys, TLAPS

Fetched == Running \ {"fetch"}
Filling == {"import", "generate"}

(* What a call has in hand: the secrets of the database or its own, and    *)
(* the stored keys while it imports them.                                  *)
InHand(c) ==
  /\ pc[c] \in Running => at[c] \in Process
  /\ pc[c] \in Fetched => secrets[c] \in Origin
  /\ pc[c] \in {"keys", "import", "generate"} /\ secrets[c] # c => master # None
  /\ pc[c] = "import" => master # None /\ master.keys # None
  /\ pc[c] = "save" => secrets[c] = c /\ cached[at[c]] # None
  /\ pc[c] \in Fetched /\ late[at[c]] => secrets[c] = master.cookies

Agreeing(p) ==
  late[p] => master # None /\ (cached[p] # None => cached[p] = master.cookies)

Missing(p) == {alg \in Alg : keystore[p][alg] = None}

Warm(p) ==
  \/ cached[p] # None
  \/ keystore[p] # NoKeys
  \/ \E c \in Call : at[c] = p /\ pc[c] \in Filling

(* In a process that has begun to fill its keystore there is one call that *)
(* will add all that is missing: the last one to have replaced the map, or *)
(* the one that has found it empty.                                        *)
Covered(p) ==
  Warm(p) =>
    \/ Missing(p) = {}
    \/ \E c \in Call : at[c] = p /\ pc[c] \in Filling /\ Missing(p) \subseteq todo[c]

IInv ==
  /\ TypeOK
  /\ \A c \in Call : InHand(c)
  /\ \A p \in Process : Agreeing(p) /\ Covered(p)

LEMMA InitIInv == Init => IInv
<1> SUFFICES ASSUME Init PROVE IInv
  OBVIOUS
<1>1. NoKeys \in [Alg -> Origin \cup {None}] /\ NoAnswer \in Answer
  BY DEF NoKeys, Answer
<1>2. TypeOK
  BY <1>1, InitiallyAssumption DEF Init, TypeOK
<1>3. ASSUME NEW c \in Call PROVE InHand(c)
  BY <1>3 DEF Init, InHand, Running, Fetched
<1>4. ASSUME NEW p \in Process PROVE Agreeing(p) /\ Covered(p)
  <2>1. Agreeing(p)
    BY <1>4 DEF Init, Agreeing
  <2>2. ~Warm(p)
    BY <1>4 DEF Init, Warm, Filling
  <2> QED
    BY <2>1, <2>2 DEF Covered
<1> QED
  BY <1>2, <1>3, <1>4 DEF IInv

-----------------------------------------------------------------------------
(* Steps of a call that leave what the calls of a process share alone.     *)
LEMMA QuietStep ==
  ASSUME IInv, NEW c \in Call, TypeOK', InHand(c)',
         UNCHANGED <<master, cached, keystore, late>>,
         \A d \in Call \ {c} : /\ pc'[d] = pc[d] /\ at'[d] = at[d]
                               /\ secrets'[d] = secrets[d] /\ todo'[d] = todo[d],
         pc[c] \notin Filling, pc'[c] \notin Filling
  PROVE  IInv'
<1>1. ASSUME NEW d \in Call PROVE InHand(d)'
  BY <1>1 DEF IInv, InHand
<1>2. ASSUME NEW p \in Process PROVE Agreeing(p)' /\ Covered(p)'
  <2>1. Agreeing(p)'
    BY <1>2 DEF IInv, Agreeing
  <2>2. \A d \in Call : /\ (pc'[d] \in Filling) = (pc[d] \in Filling)
                        /\ pc[d] \in Filling => at'[d] = at[d] /\ todo'[d] = todo[d]
    OBVIOUS
  <2>3. Missing(p)' = Missing(p) /\ Warm(p)' = Warm(p)
    BY <2>2 DEF Missing, Warm
  <2>4. Covered(p)'
    <3>1. CASE ~Warm(p) \/ Missing(p) = {}
      BY <2>3, <3>1 DEF Covered
    <3>2. CASE \E d \in Call : at[d] = p /\ pc[d] \in Filling /\ Missing(p) \subseteq todo[d]
      <4>1. PICK d \in Call : at[d] = p /\ pc[d] \in Filling /\ Missing(p) \subseteq todo[d]
        BY <3>2
      <4>2. at'[d] = p /\ pc'[d] \in Filling /\ Missing(p)' \subseteq todo'[d]
        BY <2>2, <2>3, <4>1
      <4> QED
        BY <4>2 DEF Covered
    <3> QED
      BY <1>2, <3>1, <3>2 DEF IInv, Covered
  <2> QED
    BY <2>1, <2>4
<1> QED
  BY <1>1, <1>2 DEF IInv

LEMMA BeginStays ==
  ASSUME IInv, NEW c \in Call, NEW p \in Process, Begin(c, p)
  PROVE  IInv'
<1>1. PICK label \in {"use", "fetch"} :
        pc' = [pc EXCEPT ![c] = label] /\ (label = "use" <=> cached[p] # None)
  BY DEF Begin, Goto
<1>2. /\ pc[c] = "idle" /\ at' = [at EXCEPT ![c] = p]
      /\ secrets' = [secrets EXCEPT ![c] = cached[p]]
      /\ UNCHANGED <<master, cached, keystore, late, todo, answer>>
  BY DEF Begin, Hold
<1>3. TypeOK'
  BY <1>1, <1>2 DEF IInv, TypeOK, Running
<1>4. pc'[c] = label /\ at'[c] = p /\ secrets'[c] = cached[p]
  BY <1>1, <1>2 DEF IInv, TypeOK
<1>5. InHand(c)'
  BY <1>1, <1>2, <1>4 DEF IInv, TypeOK, InHand, Agreeing, Running, Fetched
<1>6. \A d \in Call \ {c} : /\ pc'[d] = pc[d] /\ at'[d] = at[d]
                            /\ secrets'[d] = secrets[d] /\ todo'[d] = todo[d]
  BY <1>1, <1>2 DEF IInv, TypeOK
<1>7. pc[c] \notin Filling /\ pc'[c] \notin Filling
  BY <1>1, <1>2, <1>4 DEF Filling
<1> QED
  BY <1>2, <1>3, <1>5, <1>6, <1>7, QuietStep

LEMMA FetchStays ==
  ASSUME IInv, NEW c \in Call, Fetch(c)
  PROVE  IInv'
<1> DEFINE held == IF master = None THEN c ELSE master.cookies
<1>1. /\ pc[c] = "fetch" /\ pc' = [pc EXCEPT ![c] = "keys"]
      /\ secrets' = [secrets EXCEPT ![c] = held]
      /\ UNCHANGED <<master, cached, keystore, late, at, todo, answer>>
  BY DEF Fetch, Hold, Goto
<1>2. held \in Origin /\ (held # c => master # None) /\ (master # None => held = master.cookies)
  BY DEF IInv, TypeOK, StoredKeys, Origin
<1> HIDE DEF held
<1>3. TypeOK'
  BY <1>1, <1>2 DEF IInv, TypeOK, Running
<1>4. pc'[c] = "keys" /\ secrets'[c] = held
  BY <1>1 DEF IInv, TypeOK
<1>5. InHand(c)'
  BY <1>1, <1>2, <1>4 DEF IInv, TypeOK, InHand, Agreeing, Running, Fetched
<1>6. \A d \in Call \ {c} : /\ pc'[d] = pc[d] /\ at'[d] = at[d]
                            /\ secrets'[d] = secrets[d] /\ todo'[d] = todo[d]
  BY <1>1 DEF IInv, TypeOK
<1>7. pc[c] \notin Filling /\ pc'[c] \notin Filling
  BY <1>1, <1>4 DEF Filling
<1> QED
  BY <1>1, <1>3, <1>5, <1>6, <1>7, QuietStep

(* A call that ends, failed or answered.                                   *)
LEMMA EndStays ==
  ASSUME IInv, NEW c \in Call, NEW label \in Ended, pc[c] \in Running \ Filling,
         pc' = [pc EXCEPT ![c] = label], answer' \in [Call -> Answer],
         UNCHANGED <<master, cached, keystore, late, at, secrets, todo>>
  PROVE  IInv'
<1>1. TypeOK'
  BY DEF IInv, TypeOK
<1>2. pc'[c] = label
  BY DEF IInv, TypeOK
<1>3. InHand(c)'
  BY <1>2 DEF InHand, Running, Fetched, Ended
<1>4. \A d \in Call \ {c} : pc'[d] = pc[d]
  BY DEF IInv, TypeOK
<1>5. pc[c] \notin Filling /\ pc'[c] \notin Filling
  BY <1>2 DEF Filling, Ended
<1> QED
  BY <1>1, <1>3, <1>4, <1>5, QuietStep

LEMMA UseStays ==
  ASSUME IInv, NEW c \in Call, Use(c)
  PROVE  IInv'
<1>1. pc[c] = "use" /\ UNCHANGED <<master, cached, keystore, late, at, secrets, todo>>
  BY DEF Use, SignCookies, PublishKeys, SignIdToken, Reply
<1>2. pc[c] \in Running \ Filling
  BY <1>1 DEF Running, Filling
<1>3. at[c] \in Process /\ secrets[c] \in Origin
  BY <1>1 DEF IInv, InHand, Running, Fetched
<1>4. keystore[at[c]] \in [Alg -> Origin \cup {None}]
  BY <1>3 DEF IInv, TypeOK
<1>5. CASE \E a \in Answer : Reply(c, a)
  <2>1. pc' = [pc EXCEPT ![c] = "ok"] /\ answer' \in [Call -> Answer] /\ "ok" \in Ended
    BY <1>5 DEF Reply, Goto, IInv, TypeOK, Ended
  <2> QED
    BY <1>1, <1>2, <2>1, EndStays
<1>6. CASE SignCookies(c)
  <2>1. [kind |-> "cookies", secrets |-> secrets[c]] \in Answer
    BY <1>3 DEF Answer
  <2> QED
    BY <1>5, <1>6, <2>1 DEF SignCookies
<1>7. CASE PublishKeys(c)
  <2>1. [kind |-> "jwks", keys |-> keystore[at[c]]] \in Answer
    BY <1>4 DEF Answer
  <2> QED
    BY <1>5, <1>7, <2>1 DEF PublishKeys
<1>8. ASSUME NEW alg \in Alg, SignIdToken(c, alg) PROVE IInv'
  <2> DEFINE key == keystore[at[c]][alg]
  <2>1. CASE key # None
    <3>1. key \in Origin
      BY <1>4, <2>1
    <3>2. [kind |-> "id_token", alg |-> alg, key |-> key] \in Answer
      BY <3>1 DEF Answer
    <3> QED
      BY <1>5, <1>8, <2>1, <3>2 DEF SignIdToken
  <2>2. CASE key = None
    <3>1. pc' = [pc EXCEPT ![c] = "failed"] /\ answer' = answer
      BY <1>8, <2>2 DEF SignIdToken, Goto
    <3>2. answer' \in [Call -> Answer] /\ "failed" \in Ended
      BY <3>1 DEF IInv, TypeOK, Ended
    <3> QED
      BY <1>1, <1>2, <3>1, <3>2, EndStays
  <2> QED
    BY <2>1, <2>2
<1> QED
  BY <1>6, <1>7, <1>8 DEF Use

-----------------------------------------------------------------------------
(* Filling the keystore.                                                   *)

(* Replacing the map makes the call the one that adds what is missing.     *)
LEMMA StartImportStays ==
  ASSUME IInv, NEW c \in Call, StartImport(c)
  PROVE  IInv'
<1>1. /\ pc[c] = "keys" /\ pc' = [pc EXCEPT ![c] = "import"]
      /\ keystore' = [keystore EXCEPT ![at[c]] = NoKeys]
      /\ todo' = [todo EXCEPT ![c] = Alg]
      /\ UNCHANGED <<master, cached, late, at, secrets, answer>>
      /\ secrets[c] # c /\ master.keys # None
  BY DEF StartImport, HasStoredKeys, Creates, Goto
<1>2. at[c] \in Process /\ master # None
  BY <1>1 DEF IInv, InHand, Running
<1>3. NoKeys \in [Alg -> Origin \cup {None}]
  BY DEF NoKeys
<1>4. TypeOK'
  BY <1>1, <1>2, <1>3 DEF IInv, TypeOK, Running
<1>5. /\ pc'[c] = "import" /\ todo'[c] = Alg
      /\ \A d \in Call \ {c} : pc'[d] = pc[d] /\ todo'[d] = todo[d]
      /\ \A p \in Process \ {at[c]} : keystore'[p] = keystore[p]
  BY <1>1 DEF IInv, TypeOK
<1>6. ASSUME NEW d \in Call PROVE InHand(d)'
  BY <1>1, <1>2, <1>5, <1>6 DEF IInv, InHand, Running, Fetched
<1>7. ASSUME NEW p \in Process PROVE Agreeing(p)' /\ Covered(p)'
  <2>1. Agreeing(p)'
    BY <1>1, <1>7 DEF IInv, Agreeing
  <2>2. CASE p = at[c]
    <3>1. Missing(p)' \subseteq todo'[c] /\ pc'[c] \in Filling
      BY <1>5 DEF Missing, Filling
    <3> QED
      BY <1>1, <2>1, <2>2, <3>1 DEF Covered
  <2>3. CASE p # at[c]
    <3>1. Missing(p)' = Missing(p) /\ keystore'[p] = keystore[p] /\ cached'[p] = cached[p]
      BY <1>1, <1>5, <1>7, <2>3 DEF Missing
    <3>2. \A d \in Call : at'[d] = p => d # c /\ pc'[d] = pc[d] /\ todo'[d] = todo[d]
      BY <1>1, <1>5, <2>3
    <3>3. Warm(p)' => Warm(p)
      BY <1>1, <3>1, <3>2 DEF Warm, NoKeys
    <3>4. Covered(p)'
      <4>1. CASE ~Warm(p) \/ Missing(p) = {}
        BY <3>1, <3>3, <4>1 DEF Covered
      <4>2. CASE \E d \in Call : at[d] = p /\ pc[d] \in Filling /\ Missing(p) \subseteq todo[d]
        BY <1>1, <3>1, <3>2, <4>2 DEF Covered
      <4> QED
        BY <1>7, <4>1, <4>2 DEF IInv, Covered
    <3> QED
      BY <2>1, <3>4
  <2> QED
    BY <2>2, <2>3
<1> QED
  BY <1>4, <1>6, <1>7 DEF IInv

(* A key that is added is missing no more.                                 *)
LEMMA AddKeyStays ==
  ASSUME IInv, NEW c \in Call, NEW alg \in Alg, NEW origin \in Origin,
         pc[c] \in Filling, AddKey(c, alg, origin)
  PROVE  IInv'
<1>2. PICK p \in Process : p = at[c]
  BY DEF IInv, InHand, Running, Filling
<1> DEFINE keys == [keystore[p] EXCEPT ![alg] = origin]
<1>1. /\ keystore' = [keystore EXCEPT ![p] = keys]
      /\ todo' = [todo EXCEPT ![c] = @ \ {alg}]
      /\ UNCHANGED <<master, cached, late, pc, at, secrets, answer>>
  BY <1>2 DEF AddKey
<1>3. /\ keys \in [Alg -> Origin \cup {None}]
      /\ {a \in Alg : keys[a] = None} = Missing(p) \ {alg}
  BY <1>2, NamesAssumption DEF IInv, TypeOK, Origin, Missing
<1> HIDE DEF keys
<1>4. TypeOK'
  BY <1>1, <1>2, <1>3 DEF IInv, TypeOK
<1>5. /\ keystore'[p] = keys /\ \A q \in Process \ {p} : keystore'[q] = keystore[q]
      /\ todo'[c] = todo[c] \ {alg} /\ \A d \in Call \ {c} : todo'[d] = todo[d]
  BY <1>1, <1>2 DEF IInv, TypeOK
<1>6. \A d \in Call : InHand(d)'
  BY <1>1 DEF IInv, InHand
<1>7. \A q \in Process : Agreeing(q)'
  BY <1>1 DEF IInv, Agreeing
<1>8. Missing(p)' = Missing(p) \ {alg}
  BY <1>1, <1>3, <1>5 DEF Missing
<1>9. ASSUME NEW q \in Process PROVE Covered(q)'
  <2>1. Missing(q)' = Missing(q) \/ (q = p /\ Missing(q)' = Missing(q) \ {alg})
    BY <1>5, <1>8, <1>9 DEF Missing
  <2>2. \A d \in Call : todo'[d] = todo[d] \/ (d = c /\ todo'[d] = todo[d] \ {alg})
    BY <1>5
  <2>3. Warm(q)' => Warm(q)
    <3>1. CASE q = p
      BY <1>2, <3>1 DEF Warm
    <3>2. CASE q # p
      BY <1>1, <1>5, <1>9, <3>2 DEF Warm, NoKeys
    <3> QED
      BY <3>1, <3>2
  <2>4. CASE ~Warm(q) \/ Missing(q) = {}
    BY <2>1, <2>3, <2>4 DEF Covered
  <2>5. CASE \E d \in Call : at[d] = q /\ pc[d] \in Filling /\ Missing(q) \subseteq todo[d]
    <3>1. PICK d \in Call : at[d] = q /\ pc[d] \in Filling /\ Missing(q) \subseteq todo[d]
      BY <2>5
    <3>2. Missing(q)' \subseteq todo'[d]
      <4>1. CASE d = c
        BY <1>2, <1>5, <1>8, <3>1, <4>1
      <4>2. CASE d # c
        BY <1>5, <2>1, <3>1, <4>2
      <4> QED
        BY <4>1, <4>2
    <3> QED
      BY <1>1, <3>1, <3>2 DEF Covered
  <2> QED
    BY <1>9, <2>4, <2>5 DEF IInv, Covered
<1> QED
  BY <1>4, <1>6, <1>7, <1>9 DEF IInv

LEMMA FillStays ==
  ASSUME IInv, NEW c \in Call, NEW alg \in Alg, ImportKey(c, alg) \/ GenerateKey(c, alg)
  PROVE  IInv'
<1>1. CASE ImportKey(c, alg)
  <2>1. pc[c] \in Filling /\ AddKey(c, alg, master.keys[alg])
    BY <1>1 DEF ImportKey, Filling
  <2>2. master # None /\ master.keys # None
    BY <1>1 DEF ImportKey, IInv, InHand
  <2>3. master \in StoredKeys
    BY <2>2 DEF IInv, TypeOK
  <2>4. master.keys \in [Alg -> {Provisioned} \cup Call]
    BY <2>2, <2>3 DEF StoredKeys
  <2>5. master.keys[alg] \in Origin
    BY <2>4 DEF Origin
  <2> QED
    BY <2>1, <2>5, AddKeyStays
<1>2. CASE GenerateKey(c, alg)
  <2>1. pc[c] \in Filling /\ AddKey(c, alg, c) /\ c \in Origin
    BY <1>2 DEF GenerateKey, Filling, Origin
  <2> QED
    BY <2>1, AddKeyStays
<1> QED
  BY <1>1, <1>2

(* A call that finds the keystore empty adds everything; one that does not *)
(* relies on the call that has begun.                                      *)
LEMMA EnsureKeysStays ==
  ASSUME IInv, NEW c \in Call, EnsureKeys(c)
  PROVE  IInv'
<1> DEFINE left == IF keystore[at[c]] = NoKeys THEN Alg ELSE {}
<1>1. /\ pc[c] = "keys" \/ (pc[c] = "import" /\ todo[c] = {})
      /\ pc' = [pc EXCEPT ![c] = "generate"] /\ todo' = [todo EXCEPT ![c] = left]
      /\ UNCHANGED <<master, cached, keystore, late, at, secrets, answer>>
  BY DEF EnsureKeys, Goto
<1>2. at[c] \in Process
  BY <1>1 DEF IInv, InHand, Running
<1>3. TypeOK'
  BY <1>1 DEF IInv, TypeOK, Running
<1>4. /\ pc'[c] = "generate" /\ todo'[c] = left
      /\ \A d \in Call \ {c} : pc'[d] = pc[d] /\ todo'[d] = todo[d]
  BY <1>1 DEF IInv, TypeOK
<1>5. ASSUME NEW d \in Call PROVE InHand(d)'
  BY <1>1, <1>4, <1>5 DEF IInv, InHand, Running, Fetched
<1>6. \A p \in Process : Agreeing(p)' /\ Missing(p)' = Missing(p)
  BY <1>1 DEF IInv, Agreeing, Missing
<1>7. ASSUME NEW p \in Process PROVE Covered(p)'
  <2>1. CASE p = at[c] /\ keystore[p] = NoKeys
    <3>1. Missing(p)' \subseteq todo'[c] /\ pc'[c] \in Filling
      BY <1>4, <2>1 DEF Missing, Filling
    <3> QED
      BY <1>1, <2>1, <3>1 DEF Covered
  <2>2. CASE ~(p = at[c] /\ keystore[p] = NoKeys)
    <3>1. Warm(p)' => Warm(p)
      BY <1>1, <1>4, <2>2 DEF Warm, NoKeys
    <3>2. CASE ~Warm(p) \/ Missing(p) = {}
      BY <1>6, <1>7, <3>1, <3>2 DEF Covered
    <3>3. CASE \E d \in Call : at[d] = p /\ pc[d] \in Filling /\ Missing(p) \subseteq todo[d]
      <4>1. PICK d \in Call : at[d] = p /\ pc[d] \in Filling /\ Missing(p) \subseteq todo[d]
        BY <3>3
      <4>2. CASE d = c
        <5>1. Missing(p) = {}
          BY <1>1, <4>1, <4>2 DEF Filling
        <5> QED
          BY <1>6, <1>7, <5>1 DEF Covered
      <4>3. CASE d # c
        BY <1>1, <1>4, <1>6, <1>7, <4>1, <4>3 DEF Covered
      <4> QED
        BY <4>2, <4>3
    <3> QED
      BY <1>7, <3>2, <3>3 DEF IInv, Covered
  <2> QED
    BY <2>1, <2>2
<1> QED
  BY <1>3, <1>5, <1>6, <1>7 DEF IInv

(* A call goes on with its keystore complete, or being completed.          *)
LEMMA CacheStays ==
  ASSUME IInv, NEW c \in Call, Cache(c)
  PROVE  IInv'
<1>1. PICK label \in {"save", "use"} :
        pc' = [pc EXCEPT ![c] = label] /\ (label = "save" => secrets[c] = c)
  BY DEF Cache, Goto, Creates
<1>2. /\ pc[c] = "generate" /\ todo[c] = {}
      /\ cached' = [cached EXCEPT ![at[c]] = secrets[c]]
      /\ UNCHANGED <<master, keystore, late, at, secrets, todo, answer>>
  BY DEF Cache
<1>3. PICK p \in Process : p = at[c]
  BY <1>2 DEF IInv, InHand, Running
<1>4. secrets[c] \in Origin /\ secrets[c] # None
  BY <1>2, NamesAssumption DEF IInv, InHand, Running, Fetched, Origin
<1>5. TypeOK'
  BY <1>1, <1>2, <1>4 DEF IInv, TypeOK, Running
<1>6. /\ pc'[c] = label /\ \A d \in Call \ {c} : pc'[d] = pc[d]
      /\ cached'[p] = secrets[c] /\ \A q \in Process \ {p} : cached'[q] = cached[q]
  BY <1>1, <1>2, <1>3 DEF IInv, TypeOK
<1>7. ASSUME NEW d \in Call PROVE InHand(d)'
  <2>1. CASE d = c
    BY <1>1, <1>2, <1>3, <1>4, <1>6, <2>1 DEF IInv, InHand, Running, Fetched
  <2>2. CASE d # c
    <3>1. InHand(d)
      BY <1>7 DEF IInv
    <3>2. pc[d] = "save" => at[d] \in Process
      BY <3>1 DEF InHand, Running
    <3> QED
      BY <1>2, <1>4, <1>6, <2>2, <3>1, <3>2 DEF InHand
  <2> QED
    BY <2>1, <2>2
<1>8. ASSUME NEW q \in Process PROVE Agreeing(q)' /\ Covered(q)'
  <2>1. Agreeing(q)'
    BY <1>2, <1>3, <1>6, <1>8 DEF IInv, InHand, Agreeing, Running, Fetched
  <2>2. Missing(q)' = Missing(q)
    BY <1>2 DEF Missing
  <2>3. Warm(q)' => Warm(q)
    BY <1>1, <1>2, <1>3, <1>6, <1>8 DEF Warm, Filling
  <2>4. CASE ~Warm(q) \/ Missing(q) = {}
    BY <2>1, <2>2, <2>3, <2>4 DEF Covered
  <2>5. CASE \E d \in Call : at[d] = q /\ pc[d] \in Filling /\ Missing(q) \subseteq todo[d]
    <3>1. PICK d \in Call : at[d] = q /\ pc[d] \in Filling /\ Missing(q) \subseteq todo[d]
      BY <2>5
    <3>2. CASE d = c
      <4>1. Missing(q) = {}
        BY <1>2, <3>1, <3>2
      <4> QED
        BY <2>1, <2>2, <4>1 DEF Covered
    <3>3. CASE d # c
      BY <1>2, <1>6, <2>1, <2>2, <3>1, <3>3 DEF Covered
    <3> QED
      BY <3>2, <3>3
  <2> QED
    BY <1>8, <2>1, <2>4, <2>5 DEF IInv, Covered
<1> QED
  BY <1>5, <1>7, <1>8 DEF IInv

(* Only the first call to save has an effect; no late process has it.      *)
LEMMA SaveStays ==
  ASSUME IInv, NEW c \in Call, Save(c)
  PROVE  IInv'
<1>1. pc[c] = "save" /\ pc[c] \in Running \ Filling
  BY DEF Save, Running, Filling
<1>2. CASE master # None
  <2>1. /\ pc' = [pc EXCEPT ![c] = "failed"]
        /\ UNCHANGED <<master, cached, keystore, late, at, secrets, todo, answer>>
    BY <1>2 DEF Save, Goto
  <2>2. answer' \in [Call -> Answer] /\ "failed" \in Ended
    BY <2>1 DEF IInv, TypeOK, Ended
  <2> QED
    BY <1>1, <2>1, <2>2, EndStays
<1>3. CASE master = None
  <2> DEFINE stored == [cookies |-> secrets[c], keys |-> None]
  <2>1. /\ master' = stored
        /\ secrets' = [secrets EXCEPT ![c] = cached[at[c]]]
        /\ pc' = [pc EXCEPT ![c] = "use"]
        /\ UNCHANGED <<cached, keystore, late, at, todo, answer>>
    BY <1>3 DEF Save, Hold, Goto
  <2>2. at[c] \in Process /\ secrets[c] = c /\ cached[at[c]] # None
    BY <1>1 DEF IInv, InHand, Running
  <2>3. stored \in StoredKeys
    BY <2>2 DEF StoredKeys
  <2>4. cached[at[c]] \in Origin
    BY <2>2 DEF IInv, TypeOK
  <2>5. TypeOK'
    BY <2>1, <2>3, <2>4 DEF IInv, TypeOK, Running
  <2>6. /\ pc'[c] = "use" /\ secrets'[c] = cached[at[c]]
        /\ \A d \in Call \ {c} : pc'[d] = pc[d] /\ secrets'[d] = secrets[d]
    BY <2>1 DEF IInv, TypeOK
  <2>7. \A p \in Process : late[p] = FALSE
    BY <1>3 DEF IInv, TypeOK, Agreeing
  <2>8. ASSUME NEW d \in Call PROVE InHand(d)'
    <3>1. CASE d = c
      BY <2>1, <2>2, <2>4, <2>6, <2>7, <3>1 DEF InHand, Running, Fetched
    <3>2. CASE d # c
      <4>1. InHand(d)
        BY <2>8 DEF IInv
      <4> QED
        BY <1>3, <2>1, <2>6, <2>7, <3>2, <4>1 DEF InHand, Running, Fetched
    <3> QED
      BY <3>1, <3>2
  <2>9. \A p \in Process : Agreeing(p)'
    BY <2>1, <2>7 DEF Agreeing
  <2>10. ASSUME NEW p \in Process PROVE Covered(p)'
    <3>1. \A d \in Call : (pc'[d] \in Filling) = (pc[d] \in Filling)
      BY <1>1, <2>6 DEF Filling
    <3>2. Missing(p)' = Missing(p) /\ Warm(p)' = Warm(p)
      BY <2>1, <3>1 DEF Missing, Warm
    <3>3. CASE ~Warm(p) \/ Missing(p) = {}
      BY <3>2, <3>3 DEF Covered
    <3>4. CASE \E d \in Call : at[d] = p /\ pc[d] \in Filling /\ Missing(p) \subseteq todo[d]
      BY <2>1, <3>1, <3>2, <3>4 DEF Covered
    <3> QED
      BY <2>10, <3>3, <3>4 DEF IInv, Covered
  <2> QED
    BY <2>5, <2>8, <2>9, <2>10 DEF IInv
<1> QED
  BY <1>2, <1>3

(* A process takes its calls with it.                                      *)
LEMMA RestartStays ==
  ASSUME IInv, NEW p \in Process, Restart(p)
  PROVE  IInv'
<1> DEFINE hit == {c \in Call : at[c] = p /\ pc[c] \in Running}
<1>1. /\ cached' = [cached EXCEPT ![p] = None]
      /\ keystore' = [keystore EXCEPT ![p] = NoKeys]
      /\ late' = [late EXCEPT ![p] = master # None]
      /\ pc' = [c \in Call |-> IF c \in hit THEN "crashed" ELSE pc[c]]
      /\ todo' = [c \in Call |-> IF c \in hit THEN {} ELSE todo[c]]
      /\ UNCHANGED <<master, at, secrets, answer>>
  BY DEF Restart
<1>2. NoKeys \in [Alg -> Origin \cup {None}]
  BY DEF NoKeys
<1>3. TypeOK'
  <2>1. /\ cached' \in [Process -> Origin \cup {None}]
        /\ keystore' \in [Process -> [Alg -> Origin \cup {None}]]
        /\ late' \in [Process -> BOOLEAN]
    BY <1>1, <1>2 DEF IInv, TypeOK
  <2>2. /\ pc' \in [Call -> {"idle"} \cup Running \cup Ended]
        /\ todo' \in [Call -> SUBSET Alg]
    BY <1>1 DEF IInv, TypeOK, Ended
  <2> QED
    BY <1>1, <2>1, <2>2 DEF IInv, TypeOK
<1>4. \A c \in Call : at[c] = p => pc'[c] \notin Running
  BY <1>1 DEF Running
<1>5. \A c \in Call : pc'[c] \in Running => pc'[c] = pc[c] /\ todo'[c] = todo[c]
  BY <1>1 DEF Running
<1>6. \A c \in Call : at[c] # p => pc'[c] = pc[c] /\ todo'[c] = todo[c]
  BY <1>1
<1>7. /\ cached'[p] = None /\ keystore'[p] = NoKeys /\ (late'[p] => master # None)
      /\ \A q \in Process \ {p} : /\ cached'[q] = cached[q] /\ keystore'[q] = keystore[q]
                                  /\ late'[q] = late[q]
  BY <1>1 DEF IInv, TypeOK
<1>8. ASSUME NEW c \in Call PROVE InHand(c)'
  <2>1. CASE pc'[c] \notin Running
    BY <2>1 DEF InHand, Running, Fetched
  <2>2. CASE pc'[c] \in Running
    <3>1. InHand(c) /\ pc'[c] = pc[c] /\ at[c] # p
      BY <1>4, <1>5, <1>8, <2>2 DEF IInv
    <3>2. at[c] \in Process
      BY <2>2, <3>1 DEF InHand
    <3> QED
      BY <1>1, <1>7, <3>1, <3>2 DEF InHand
  <2> QED
    BY <2>1, <2>2
<1>9. ASSUME NEW q \in Process PROVE Agreeing(q)' /\ Covered(q)'
  <2>1. CASE q = p
    <3>1. ~Warm(p)'
      BY <1>1, <1>4, <1>7 DEF Warm, Filling, Running
    <3> QED
      BY <1>1, <1>7, <2>1, <3>1 DEF Agreeing, Covered
  <2>2. CASE q # p
    <3>1. Agreeing(q)'
      BY <1>1, <1>7, <1>9, <2>2 DEF IInv, Agreeing
    <3>2. Missing(q)' = Missing(q)
      BY <1>7, <1>9, <2>2 DEF Missing
    <3>3. Warm(q)' => Warm(q)
      BY <1>1, <1>6, <1>7, <1>9, <2>2 DEF Warm
    <3>4. CASE ~Warm(q) \/ Missing(q) = {}
      BY <3>1, <3>2, <3>3, <3>4 DEF Covered
    <3>5. CASE \E d \in Call : at[d] = q /\ pc[d] \in Filling /\ Missing(q) \subseteq todo[d]
      BY <1>1, <1>6, <2>2, <3>1, <3>2, <3>5 DEF Covered
    <3> QED
      BY <1>9, <3>1, <3>4, <3>5 DEF IInv, Covered
  <2> QED
    BY <2>1, <2>2
<1> QED
  BY <1>3, <1>8, <1>9 DEF IInv

-----------------------------------------------------------------------------
(* The theorems.                                                           *)

LEMMA NextIInv == IInv /\ [Next]_vars => IInv'
<1> SUFFICES ASSUME IInv, [Next]_vars PROVE IInv'
  OBVIOUS
<1>1. ASSUME NEW c \in Call, GetKeys(c) PROVE IInv'
  BY <1>1, FetchStays, StartImportStays, EnsureKeysStays, CacheStays, SaveStays, FillStays
     DEF GetKeys
<1>2. ASSUME NEW c \in Call, Fail(c) PROVE IInv'
  <2>1. /\ pc[c] \in Running \ Filling /\ pc' = [pc EXCEPT ![c] = "failed"]
        /\ UNCHANGED <<master, cached, keystore, late, at, secrets, todo, answer>>
    BY <1>2 DEF Fail, Goto, Running, Filling
  <2>2. answer' \in [Call -> Answer] /\ "failed" \in Ended
    BY <2>1 DEF IInv, TypeOK, Ended
  <2> QED
    BY <2>1, <2>2, EndStays
<1>3. CASE UNCHANGED vars
  BY <1>3 DEF vars, IInv, TypeOK, InHand, Agreeing, Covered, Warm, Missing
<1> QED
  BY <1>1, <1>2, <1>3, UseStays, BeginStays, RestartStays DEF Next

LEMMA Invariance == Spec => []IInv
BY InitIInv, NextIInv, PTL DEF Spec

(* Type correctness of the stored keys, the memory of the processes and    *)
(* their calls.                                                            *)
THEOREM KeysTyped == Spec => []TypeOK
<1>1. IInv => TypeOK
  BY DEF IInv
<1> QED
  BY <1>1, Invariance, PTL

(* A process that starts when keys are stored uses the stored secrets,     *)
(* whatever fails, and however many calls load them side by side.          *)
THEOREM LateProcessesUseStoredSecrets == Spec => []LateProcessesAgree
<1>1. IInv => LateProcessesAgree
  BY DEF IInv, Agreeing, LateProcessesAgree
<1> QED
  BY <1>1, Invariance, PTL

(* When the last call of a process is through, no key pair is missing,     *)
(* although each of them may have relied on another one.                   *)
THEOREM WarmKeystoresAreComplete == Spec => []WarmKeystoreIsComplete
<1>1. IInv => WarmKeystoreIsComplete
  <2> SUFFICES ASSUME IInv, NEW p \in Process, cached[p] # None,
                      \A c \in Call : at[c] = p => pc[c] \notin Initialising
               PROVE  \A alg \in Alg : keystore[p][alg] # None
    BY DEF WarmKeystoreIsComplete
  <2>1. ~\E c \in Call : at[c] = p /\ pc[c] \in Filling
    BY DEF Filling, Initialising, Running
  <2>2. Missing(p) = {}
    BY <2>1 DEF IInv, Covered, Warm
  <2> QED
    BY <2>2 DEF Missing
<1> QED
  BY <1>1, Invariance, PTL

=============================================================================
