--------------------------- MODULE AccountsProofs ---------------------------
(***************************************************************************)
(* Theorems about Accounts, for any number of users, clients, passwords,   *)
(* secrets and callers.                                                    *)
(***************************************************************************)
EXTENDS Accounts, TLAPS

Pending(c) == pc[c] \in {"validated", "hashed"}
Updating(c) == pc[c] \in {"hook", "rewrite", "write"}

(* What was given by a caller has not been hashed; a document that waits   *)
(* to be inserted has an id of its own, and a password that was hashed     *)
(* once when the hook of save() is through.                                *)
Draft(c) ==
  /\ doc[c].id = None => doc[c].secret.hashes = 0
  /\ Pending(c) =>
       /\ doc[c].id \in Ids(doc[c].model) /\ ~Exists(doc[c].id)
       /\ doc[c].secret \in Value
       /\ doc[c].model = "user" =>
            doc[c].secret.hashes = IF pc[c] = "validated" THEN 0 ELSE 1

(* An update is about a document that exists.  Once its hook is through it *)
(* has no secret of a client but the empty one, and passwords that are not *)
(* empty are hashed once.                                                  *)
Target(c) ==
  Updating(c) =>
    /\ doc[c].id \in User \cup Client /\ Exists(doc[c].id)
    /\ doc[c].id \in Ids(doc[c].model)
    /\ \A s \in {update[c].top.secret, update[c].set.secret} \ {NoValue, Plain(Empty)} :
         /\ s.hashes = IF pc[c] = "hook" THEN 0 ELSE 1
         /\ doc[c].model = "client" => pc[c] = "hook"

Apart ==
  \A c, d \in Caller : Pending(c) /\ Pending(d) /\ doc[c].id = doc[d].id => c = d

Safe ==
  /\ TypeOK /\ PasswordIsHashedOnce
  /\ Apart
  /\ \A c \in Caller : Draft(c) /\ Target(c)

(* A password is hashed once from plain, whatever the bound on hashes.     *)
LEMMA HashOnce ==
  ASSUME NEW v \in Value, v.hashes = 0
  PROVE  /\ hashPassword(v) \in Value
         /\ hashPassword(v).plain = v.plain
         /\ hashPassword(v).hashes = 1
BY HashesAssumption DEF Value, hashPassword

LEMMA InitSafe == Init => Safe
BY NamesAssumption
   DEF Init, Safe, TypeOK, PasswordIsHashedOnce, Apart, Draft,
       Target, Pending, Updating, Documents, Updates, Paths, NoDoc,
       NoUpdate, NoPaths, NoValue, Exists

(* A step of one caller that writes nothing is safe when what it leaves    *)
(* behind is: the caller's own data, and a draft that clashes with none.   *)
OwnData(c) ==
  /\ doc[c] \in Documents
  /\ update[c] \in Updates
  /\ Draft(c) /\ Target(c)

Alone(c) ==
  /\ db' = db
  /\ \E label \in {"idle", "held", "validated", "hashed", "hook", "rewrite", "write"} :
       pc' = [pc EXCEPT ![c] = label]
  /\ \E d \in Documents : doc' = [doc EXCEPT ![c] = d]
  /\ \E u \in Updates : update' = [update EXCEPT ![c] = u]

LEMMA LocalStep ==
  ASSUME Safe, NEW c \in Caller, Alone(c), OwnData(c)',
         \A d \in Caller \ {c} : Pending(c)' /\ Pending(d) => doc'[c].id # doc[d].id
  PROVE  Safe'
<1>1. \A d \in Caller \ {c} : /\ pc'[d] = pc[d] /\ doc'[d] = doc[d] /\ update'[d] = update[d]
  BY DEF Alone, Safe, TypeOK
<1>2. TypeOK'
  BY DEF Alone, Safe, TypeOK, Exists
<1>3. PasswordIsHashedOnce'
  BY DEF Alone, Safe, PasswordIsHashedOnce, Exists
<1>4. Apart'
  BY <1>1 DEF Safe, Apart, Pending
<1>5. ASSUME NEW d \in Caller
      PROVE  Draft(d)' /\ Target(d)'
  <2>1. CASE d = c
    BY <2>1 DEF OwnData
  <2>2. CASE d # c
    BY <1>1, <2>2 DEF Alone, Safe, Draft, Target, Pending, Updating, Exists
  <2> QED
    BY <2>1, <2>2
<1> QED
  BY <1>2, <1>3, <1>4, <1>5 DEF Safe

(* A call that returns leaves nothing behind.                              *)
LEMMA ReturnIsLocal ==
  ASSUME Safe, NEW c \in Caller, Return(c), db' = db
  PROVE  Safe'
<1>1. NoDoc \in Documents /\ NoUpdate \in Updates
  BY DEF NoDoc, NoUpdate, NoPaths, NoValue, Documents, Updates, Paths
<1>2. Alone(c)
  BY <1>1 DEF Return, Goto, Alone
<1>3. OwnData(c)'
  BY <1>1 DEF Return, Goto, Safe, TypeOK, OwnData, Draft, Target, Pending,
              Updating, NoDoc, NoValue
<1>4. ~Pending(c)'
  BY DEF Return, Goto, Safe, TypeOK, Pending
<1> QED
  BY <1>2, <1>3, <1>4, LocalStep

LEMMA Same ==
  ASSUME Safe, NEW c \in Caller
  PROVE  /\ doc[c] \in Documents /\ doc = [doc EXCEPT ![c] = doc[c]]
         /\ update[c] \in Updates /\ update = [update EXCEPT ![c] = update[c]]
BY DEF Safe, TypeOK

(* A document that is held and not yet validated. *)
LEMMA HoldIsLocal ==
  ASSUME Safe, NEW c \in Caller, NEW d \in Documents,
         pc[c] \in {"idle", "held"},
         d.id = None => d.secret.hashes = 0,
         doc' = [doc EXCEPT ![c] = d],
         pc' = [pc EXCEPT ![c] = "held"],
         UNCHANGED <<db, update>>
  PROVE  Safe'
<1>1. Alone(c)
  BY Same DEF Alone
<1>2. /\ pc'[c] = "held" /\ doc'[c] = d /\ update'[c] = update[c]
  BY DEF Safe, TypeOK
<1>3. ~Pending(c)' /\ ~Updating(c)'
  BY <1>2 DEF Pending, Updating
<1>4. Draft(c)' /\ Target(c)'
  BY <1>2, <1>3 DEF Draft, Target
<1>5. OwnData(c)'
  BY <1>2, <1>4 DEF OwnData, Safe, TypeOK
<1> QED
  BY <1>1, <1>3, <1>5, LocalStep

(* Documents are created and loaded in memory. *)
LEMMA CreateSafe ==
  ASSUME Safe, NEW c \in Caller, Create(c) \/ Load(c) \/ resetSecret(c)
  PROVE  Safe'
<1>1. CASE Create(c)
  <2>1. PICK model \in {"user", "client"}, i \in User \cup Client \cup {None},
             s \in Password \cup Secret \cup {None, Empty} :
               doc' = [doc EXCEPT ![c] = [id |-> i, model |-> model, secret |-> Plain(s),
                                          consents |-> {}]]
    BY <1>1, TrimAssumption DEF Create, Ids
  <2>2. Plain(s) \in Value \cup {NoValue} /\ Plain(s).hashes = 0
    BY HashesAssumption DEF Plain, Value, NoValue
  <2>3. [id |-> i, model |-> model, secret |-> Plain(s), consents |-> {}] \in Documents
    BY <2>2 DEF Documents
  <2> QED
    BY <1>1, <2>1, <2>2, <2>3, HoldIsLocal DEF Create, Goto
<1>2. CASE Load(c)
  <2>1. PICK i \in User \cup Client : Exists(i) /\ doc' = [doc EXCEPT ![c] = db[i]]
    BY <1>2 DEF Load
  <2>2. db[i] \in Documents /\ db[i].id # None
    BY <2>1, NamesAssumption DEF Safe, TypeOK
  <2> QED
    BY <1>2, <2>1, <2>2, HoldIsLocal DEF Load, Goto
<1>3. CASE resetSecret(c)
  <2>1. PICK s \in Secret : doc' = [doc EXCEPT ![c].secret = Plain(s)]
    BY <1>3 DEF resetSecret, GenerateSecret
  <2>2. Plain(s) \in Value /\ Plain(s).hashes = 0
    BY HashesAssumption DEF Plain, Value
  <2> DEFINE new == [doc[c] EXCEPT !.secret = Plain(s)]
  <2>3. new \in Documents /\ new.secret = Plain(s)
    <3>1. doc[c] \in Documents
      BY DEF Safe, TypeOK
    <3> QED
      BY <2>2, <3>1 DEF Documents
  <2>4. doc' = [doc EXCEPT ![c] = new]
    BY <2>1
  <2>5. pc' = [pc EXCEPT ![c] = "held"]
    BY <1>3 DEF resetSecret, Safe, TypeOK
  <2> HIDE DEF new
  <2> QED
    BY <1>3, <2>2, <2>3, <2>4, <2>5, HoldIsLocal DEF resetSecret
<1> QED
  BY <1>1, <1>2, <1>3

(* The hooks before validation and before saving. *)
LEMMA ValidateSafe ==
  ASSUME Safe, NEW c \in Caller, Validate(c)
  PROVE  Safe'
<1>1. CASE Refused(doc[c])
  BY <1>1, ReturnIsLocal DEF Validate
<1>2. CASE ~Refused(doc[c])
  <2>1. doc[c].id = None
    BY <1>2 DEF Refused
  <2>2. PICK i \in GenerateId(doc[c].model),
             s \in Value :
               /\ doc' = [doc EXCEPT ![c].id = i, ![c].secret = s]
               /\ s.hashes = 0
    <3>1. PICK i \in GenerateId(doc[c].model) :
             \E s \in IF doc[c].model = "client" THEN {Plain(x) : x \in GenerateSecret}
                                                  ELSE {doc[c].secret} :
               doc' = [doc EXCEPT ![c].id = i, ![c].secret = s]
      BY <1>2, <2>1 DEF Validate
    <3>2. PICK s \in IF doc[c].model = "client" THEN {Plain(x) : x \in GenerateSecret}
                                                  ELSE {doc[c].secret} :
               doc' = [doc EXCEPT ![c].id = i, ![c].secret = s]
      BY <3>1
    <3>3. CASE doc[c].model = "client"
      <4>1. PICK x \in Secret : s = Plain(x)
        BY <3>2, <3>3 DEF GenerateSecret
      <4>2. s \in Value /\ s.hashes = 0
        BY <4>1, HashesAssumption DEF Plain, Value
      <4> QED
        BY <3>2, <4>2
    <3>4. CASE doc[c].model # "client"
      <4>1. doc[c].secret \in Value /\ doc[c].secret.hashes = 0
        BY <1>2, <2>1, <3>4 DEF Refused, Missing, Safe, TypeOK, Documents, Draft
      <4>2. s = doc[c].secret
        BY <3>2, <3>4
      <4> QED
        BY <3>2, <4>1, <4>2
    <3> QED
      BY <3>3, <3>4
  <2>3. i \in Ids(doc[c].model) /\ ~Exists(i) /\ (\A d \in Caller : doc[d].id # i)
    BY <2>2 DEF GenerateId
  <2>4. i # None /\ i \in User \cup Client
    BY <2>3, NamesAssumption DEF Ids
  <2>6. pc' = [pc EXCEPT ![c] = "validated"] /\ UNCHANGED <<db, update>>
    BY <1>2 DEF Validate, Goto
  <2> DEFINE new == [doc[c] EXCEPT !.id = i, !.secret = s]
  <2>7. new \in Documents /\ doc' = [doc EXCEPT ![c] = new]
    <3>1. new \in Documents
      BY <2>2, <2>4, Same DEF Documents
    <3>2. doc' = [doc EXCEPT ![c] = new]
      BY <2>2
    <3> QED
      BY <3>1, <3>2
  <2>8. Alone(c)
    BY <2>6, <2>7, Same DEF Alone
  <2>9. /\ pc'[c] = "validated" /\ doc'[c] = new /\ update'[c] = update[c] /\ db' = db
    BY <2>6, <2>7 DEF Safe, TypeOK
  <2>10. /\ new.id = i /\ new.model = doc[c].model /\ new.secret = s /\ new.consents = doc[c].consents
    BY DEF Safe, TypeOK, Documents
  <2> HIDE DEF new
  <2>11. ~Updating(c)'
    BY <2>9 DEF Validate, Updating, Safe
  <2>12. Draft(c)' /\ Target(c)'
    BY <2>2, <2>3, <2>4, <2>9, <2>10, <2>11 DEF Draft, Target, Pending, Exists
  <2>13. OwnData(c)'
    BY <2>7, <2>9, <2>12 DEF OwnData, Safe, TypeOK
  <2> QED
    BY <2>3, <2>8, <2>9, <2>10, <2>13, LocalStep
<1> QED
  BY <1>1, <1>2

LEMMA HashBeforeSaveSafe ==
  ASSUME Safe, NEW c \in Caller, HashBeforeSave(c)
  PROVE  Safe'
<1> DEFINE new == IF doc[c].model = "user" THEN [doc[c] EXCEPT !.secret = hashPassword(@)]
                                           ELSE doc[c]
<1>1. Pending(c) /\ Draft(c) /\ pc[c] = "validated"
  BY DEF HashBeforeSave, Pending, Safe
<1>2. doc[c].model = "user" =>
        /\ hashPassword(doc[c].secret) \in Value
        /\ hashPassword(doc[c].secret).hashes = 1
  BY <1>1, HashOnce DEF Draft
<1>3. /\ new \in Documents /\ new.id = doc[c].id /\ new.model = doc[c].model
      /\ new.secret \in Value
      /\ new.model = "user" => new.secret.hashes = 1
  BY <1>1, <1>2, Same DEF Documents, Draft
<1>4. doc' = [doc EXCEPT ![c] = new]
  BY Same DEF HashBeforeSave
<1> HIDE DEF new
<1>5. pc' = [pc EXCEPT ![c] = "hashed"] /\ UNCHANGED <<db, update>>
  BY DEF HashBeforeSave, Goto
<1>6. Alone(c)
  BY <1>3, <1>4, <1>5, Same DEF Alone
<1>7. /\ pc'[c] = "hashed" /\ doc'[c] = new /\ update'[c] = update[c]
  BY <1>4, <1>5 DEF Safe, TypeOK
<1>8. ~Updating(c)' /\ new.id # None
  BY <1>1, <1>3, <1>7, NamesAssumption
     DEF Updating, Safe, Draft, Ids
<1>9. Draft(c)' /\ Target(c)'
  BY <1>1, <1>3, <1>5, <1>7, <1>8 DEF Draft, Target, Pending, Exists
<1>10. OwnData(c)'
  BY <1>3, <1>7, <1>9, Same DEF OwnData
<1>11. \A d \in Caller \ {c} : Pending(d) => doc'[c].id # doc[d].id
  BY <1>1, <1>3, <1>7 DEF Safe, Apart
<1> QED
  BY <1>6, <1>10, <1>11, LocalStep

(* A write.  The caller goes on with the second one, or returns.  No draft *)
(* is about the document it writes, and what it writes has been hashed.    *)
LEMMA StoreSafe ==
  ASSUME Safe, NEW c \in Caller, NEW i \in User \cup Client, NEW d \in Documents,
         d.id = i, i \in Ids(d.model), d.secret \in Value,
         i \in User => d.secret.hashes = 1 \/ d.secret = Plain(Empty),
         db' = [db EXCEPT ![i] = d],
         \A e \in Caller \ {c} : Pending(e) => doc[e].id # i,
         \/ Return(c)
         \/ Goto(c, "write") /\ pc[c] = "rewrite" /\ UNCHANGED <<doc, update>>
  PROVE  Safe'
<1>1. i # None /\ d # NoDoc
  BY NamesAssumption DEF NoDoc
<1>2. NoDoc \in Documents /\ NoUpdate \in Updates /\ NoDoc.id = None /\ NoDoc.secret.hashes = 0
  BY DEF NoDoc, NoUpdate, NoPaths, NoValue, Documents, Updates, Paths
<1>3. db' = [db EXCEPT ![i] = d]
  OBVIOUS
<1>4. \A e \in Caller \ {c} : /\ pc'[e] = pc[e] /\ doc'[e] = doc[e] /\ update'[e] = update[e]
  BY DEF Return, Goto, Safe, TypeOK
<1>5. \/ /\ pc'[c] = "idle" /\ doc'[c] = NoDoc
      \/ /\ pc[c] = "rewrite" /\ pc'[c] = "write" /\ doc'[c] = doc[c]
         /\ update'[c] = update[c]
  BY DEF Return, Goto, Safe, TypeOK
<1>6. TypeOK'
  <2>1. /\ pc' \in [Caller -> {"idle", "held", "validated", "hashed", "hook", "rewrite",
                               "write"}]
        /\ doc' \in [Caller -> Documents]
        /\ update' \in [Caller -> Updates]
    BY <1>2 DEF Return, Goto, Safe, TypeOK
  <2>2. db' \in [User \cup Client -> Documents]
    BY <1>3 DEF Safe, TypeOK
  <2>3. ASSUME NEW j \in User \cup Client, Exists(j)'
        PROVE  db'[j].id = j /\ j \in Ids(db'[j].model) /\ db'[j].secret \in Value
    BY <1>3, <2>3 DEF Safe, TypeOK, Exists
  <2> QED
    BY <1>3, <2>1, <2>2, <2>3 DEF TypeOK
<1>7. PasswordIsHashedOnce'
  BY <1>3 DEF Safe, TypeOK, PasswordIsHashedOnce, Exists
<1>8. Apart'
  BY <1>4, <1>5 DEF Safe, Apart, Pending
<1>9. ASSUME NEW e \in Caller
      PROVE  Draft(e)' /\ Target(e)'
  <2>1. CASE e # c
    <3>1. \A j \in User \cup Client : j # i => (Exists(j)' <=> Exists(j))
      BY <1>3 DEF Safe, TypeOK, Exists
    <3>2. Exists(i)'
      BY <1>1, <1>3 DEF Safe, TypeOK, Exists
    <3>3. Pending(e) => doc[e].id \in User \cup Client
      BY DEF Safe, Draft, Ids
    <3>4. Draft(e) /\ Target(e)
      BY DEF Safe
    <3> QED
      BY <1>3, <1>4, <2>1, <3>1, <3>2, <3>3, <3>4
         DEF Draft, Target, Pending, Updating
  <2>2. CASE e = c /\ pc'[c] = "idle"
    BY <1>2, <1>5, <2>2 DEF Draft, Target, Pending, Updating
  <2>3. CASE e = c /\ pc'[c] = "write"
    <3>1. Draft(c) /\ Target(c)
      BY DEF Safe
    <3>2. \A j \in User \cup Client : Exists(j) => Exists(j)'
      BY <1>1, <1>3 DEF Safe, TypeOK, Exists
    <3> QED
      BY <1>5, <2>3, <3>1, <3>2 DEF Draft, Target, Pending, Updating
  <2> QED
    BY <1>5, <2>1, <2>2, <2>3
<1> QED
  BY <1>6, <1>7, <1>8, <1>9 DEF Safe

LEMMA InsertSafe ==
  ASSUME Safe, NEW c \in Caller, Insert(c)
  PROVE  Safe'
<1>1. Pending(c) /\ pc[c] = "hashed" /\ Draft(c)
  BY DEF Insert, Pending, Safe
<1>2. /\ doc[c].id \in Ids(doc[c].model) /\ doc[c].id \in User \cup Client
      /\ doc[c].secret \in Value /\ doc[c] \in Documents
  BY <1>1, Same DEF Draft, Ids
<1>3. doc[c].id \in User => doc[c].secret.hashes = 1
  BY <1>1, <1>2, NamesAssumption DEF Draft, Ids, Documents
<1>4. \A e \in Caller \ {c} : Pending(e) => doc[e].id # doc[c].id
  BY <1>1 DEF Safe, Apart
<1> QED
  BY <1>2, <1>3, <1>4, StoreSafe DEF Insert

(* An update whose hook is through makes a document of a document.         *)
LEMMA UpdatedDocument ==
  ASSUME Safe, NEW c \in Caller, pc[c] \in {"rewrite", "write"}
  PROVE  LET i == doc[c].id
             d == Updated(db[i], update[c])
         IN  /\ i \in User \cup Client /\ Exists(i)
             /\ d \in Documents /\ d.id = i /\ i \in Ids(d.model) /\ d.secret \in Value
             /\ i \in User => d.secret.hashes = 1 \/ d.secret = Plain(Empty)
             /\ i \in Client => d.secret \in {db[i].secret, Plain(Empty)}
             /\ db[i].consents \subseteq d.consents
             /\ \A e \in Caller \ {c} : Pending(e) => doc[e].id # i
<1> DEFINE i == doc[c].id
           u == update[c]
           secrets == {paths.secret : paths \in {u.top, u.set}} \ {NoValue}
           chosen == CHOOSE s \in secrets : TRUE
           d == Updated(db[i], u)
<1>1. Target(c) /\ Updating(c)
  BY DEF Safe, Updating
<1>2. i \in User \cup Client /\ Exists(i) /\ i \in Ids(doc[c].model)
  BY <1>1 DEF Target
<1>3. /\ db[i] \in Documents /\ db[i].id = i /\ i \in Ids(db[i].model) /\ db[i].secret \in Value
      /\ i \in User => db[i].secret.hashes = 1 \/ db[i].secret = Plain(Empty)
  BY <1>2 DEF Safe, TypeOK, PasswordIsHashedOnce
<1>4. u \in Updates
  BY Same
<1>5. secrets = {u.top.secret, u.set.secret} \ {NoValue}
  OBVIOUS
<1>6. /\ \A s \in secrets : s \in Value
      /\ \A s \in secrets : s = Plain(Empty) \/ s.hashes = 1
      /\ \A s \in secrets : s = Plain(Empty) \/ doc[c].model # "client"
  BY <1>1, <1>4, <1>5 DEF Target, Updates, Paths
<1>7. secrets # {} => chosen \in secrets
  OBVIOUS
<1>8. i \in Client => secrets \subseteq {Plain(Empty)}
  BY <1>2, <1>6, NamesAssumption, Same DEF Ids, Documents
<1>9. d = [db[i] EXCEPT !.consents = @ \cup u.add, !.secret = IF secrets = {} THEN @ ELSE chosen]
  BY DEF Updated
<1> HIDE DEF secrets, chosen, d
<1> DEFINE secret == IF secrets = {} THEN db[i].secret ELSE chosen
<1>10. /\ secret \in Value
       /\ i \in User => secret.hashes = 1 \/ secret = Plain(Empty)
       /\ i \in Client => secret \in {db[i].secret, Plain(Empty)}
  <2>1. CASE secrets = {}
    BY <1>3, <2>1
  <2>2. CASE secrets # {}
    <3>1. secret = chosen /\ chosen \in secrets
      BY <1>7, <2>2
    <3>2. secret \in secrets
      BY <3>1
    <3> HIDE DEF secret
    <3>3. secret \in Value /\ (secret = Plain(Empty) \/ secret.hashes = 1)
      BY <1>6, <3>2, Zenon
    <3>4. i \in Client => secret = Plain(Empty)
      BY <1>8, <3>2
    <3> QED
      BY <3>3, <3>4
  <2> QED
    BY <2>1, <2>2
<1> HIDE DEF secret
<1>11. /\ d.id = i /\ d.model = db[i].model /\ d.consents = db[i].consents \cup u.add
       /\ d.secret = secret
       /\ d \in Documents
  <2>1. d = [db[i] EXCEPT !.consents = db[i].consents \cup u.add, !.secret = secret]
    BY <1>9 DEF secret
  <2>2. u.add \subseteq Client
    BY <1>4 DEF Updates
  <2> QED
    BY <1>3, <1>10, <2>1, <2>2 DEF Documents
<1>12. \A e \in Caller \ {c} : Pending(e) => doc[e].id # i
  BY <1>2 DEF Safe, Draft
<1> QED
  BY <1>2, <1>3, <1>10, <1>11, <1>12 DEF d

LEMMA UpdateWritesSafe ==
  ASSUME Safe, NEW c \in Caller, WriteInHook(c) \/ Write(c)
  PROVE  Safe'
<1> DEFINE i == doc[c].id
           d == Updated(db[i], update[c])
<1>1. pc[c] \in {"rewrite", "write"} /\ db' = [db EXCEPT ![i] = d]
  BY DEF WriteInHook, Write
<1>2. /\ i \in User \cup Client
      /\ d \in Documents /\ d.id = i /\ i \in Ids(d.model) /\ d.secret \in Value
      /\ i \in User => d.secret.hashes = 1 \/ d.secret = Plain(Empty)
      /\ \A e \in Caller \ {c} : Pending(e) => doc[e].id # i
  BY <1>1, UpdatedDocument
<1>3. Return(c) \/ (Goto(c, "write") /\ pc[c] = "rewrite" /\ UNCHANGED <<doc, update>>)
  BY DEF WriteInHook, Write
<1> HIDE DEF i, d
<1> QED
  BY <1>1, <1>2, <1>3, StoreSafe

(* An update is asked for, and its hook runs. *)
LEMMA FindByIdAndUpdateSafe ==
  ASSUME Safe, NEW c \in Caller, FindByIdAndUpdate(c)
  PROVE  Safe'
<1>1. PICK i \in User \cup Client :
        /\ Exists(i)
        /\ doc' = [doc EXCEPT ![c] = [NoDoc EXCEPT !.id = i, !.model = db[i].model]]
        /\ \E p \in [id : BOOLEAN, secret : {Plain(s) :
                       s \in {Empty} \cup IF i \in User THEN Password ELSE Secret} \cup {NoValue}] :
           \E add \in IF i \in User THEN SUBSET Client ELSE {{}} :
             \/ update' = [update EXCEPT ![c] = [top |-> p, set |-> NoPaths, add |-> add]]
             \/ update' = [update EXCEPT ![c] = [top |-> NoPaths, set |-> p, add |-> add]]
  BY DEF FindByIdAndUpdate
<1>2. PICK p \in [id : BOOLEAN, secret : {Plain(s) : s \in Password \cup Secret \cup {Empty}} \cup {NoValue}],
           add \in SUBSET Client :
             \/ update' = [update EXCEPT ![c] = [top |-> p, set |-> NoPaths, add |-> add]]
             \/ update' = [update EXCEPT ![c] = [top |-> NoPaths, set |-> p, add |-> add]]
  BY <1>1
<1>3. p \in Paths /\ p.secret.hashes = 0 /\ NoPaths \in Paths /\ NoPaths.secret = NoValue
  BY HashesAssumption DEF Paths, NoPaths, NoValue, Plain, Value
<1>4. PICK u \in Updates :
        /\ update' = [update EXCEPT ![c] = u]
        /\ \A s \in {u.top.secret, u.set.secret} \ {NoValue} : s.hashes = 0
  <2> DEFINE atTop == [top |-> p, set |-> NoPaths, add |-> add]
             inSet == [top |-> NoPaths, set |-> p, add |-> add]
  <2>1. atTop \in Updates /\ inSet \in Updates
    BY <1>3 DEF Updates
  <2>2. \A s \in {p.secret, NoPaths.secret} \ {NoValue} : s.hashes = 0
    BY <1>3
  <2>3. CASE update' = [update EXCEPT ![c] = atTop]
    BY <2>1, <2>2, <2>3
  <2>4. CASE update' = [update EXCEPT ![c] = inSet]
    BY <2>1, <2>2, <2>4
  <2> QED
    BY <1>2, <2>3, <2>4
<1> DEFINE new == [NoDoc EXCEPT !.id = i, !.model = db[i].model]
<1>5. /\ new \in Documents /\ new.id = i /\ new.model = db[i].model /\ new.secret.hashes = 0
      /\ i \in Ids(db[i].model)
  BY <1>1 DEF NoDoc, NoValue, Documents, Safe, TypeOK
<1>6. doc' = [doc EXCEPT ![c] = new]
  BY <1>1
<1> HIDE DEF new
<1>7. pc' = [pc EXCEPT ![c] = "hook"] /\ db' = db /\ pc[c] = "idle"
  BY DEF FindByIdAndUpdate, Goto
<1>8. Alone(c)
  BY <1>4, <1>5, <1>6, <1>7, Same DEF Alone
<1>9. /\ pc'[c] = "hook" /\ doc'[c] = new /\ update'[c] = u
  BY <1>4, <1>6, <1>7 DEF Safe, TypeOK
<1>10. ~Pending(c)'
  BY <1>7, <1>9 DEF Pending, Safe
<1>11. Draft(c)' /\ Target(c)'
  <2>1. Exists(i)' /\ i # None
    BY <1>1, <1>7, NamesAssumption DEF Exists
  <2>2. Target(c)'
    BY <1>4, <1>5, <1>7, <1>9, <1>10, <2>1 DEF Target
  <2> QED
    BY <1>5, <1>9, <1>10, <2>1, <2>2 DEF Draft
<1>12. OwnData(c)'
  BY <1>4, <1>5, <1>9, <1>11, Same DEF OwnData
<1> QED
  BY <1>8, <1>10, <1>12, LocalStep

LEMMA HashPathType ==
  ASSUME NEW paths \in Paths, ~Missing(paths.secret) => paths.secret.hashes = 0
  PROVE  /\ HashPath(paths) \in Paths
         /\ ~Missing(HashPath(paths).secret) => HashPath(paths).secret.hashes = 1
<1>1. CASE Missing(paths.secret)
  BY <1>1 DEF HashPath
<1>2. CASE ~Missing(paths.secret)
  <2>1. paths.secret \in Value
    BY <1>2 DEF Paths, Missing
  <2>2. hashPassword(paths.secret) \in Value /\ hashPassword(paths.secret).hashes = 1
    BY <1>2, <2>1, HashOnce
  <2>3. HashPath(paths) = [paths EXCEPT !.secret = hashPassword(paths.secret)]
    BY <1>2 DEF HashPath
  <2> QED
    BY <1>2, <2>2, <2>3 DEF Paths
<1> QED
  BY <1>1, <1>2

LEMMA UpdateHookSafe ==
  ASSUME Safe, NEW c \in Caller, UpdateHook(c)
  PROVE  Safe'
<1>1. CASE Forbidden(doc[c].model, update[c])
  BY <1>1, ReturnIsLocal, Same DEF UpdateHook
<1>2. CASE ~Forbidden(doc[c].model, update[c])
  <2> DEFINE u == update[c]
             new == Hashed(doc[c].model, u)
  <2>1. Target(c) /\ Updating(c) /\ pc[c] = "hook" /\ u \in Updates
    BY Same DEF UpdateHook, Safe, Updating
  <2>2. \A s \in {u.top.secret, u.set.secret} : ~Missing(s) => s.hashes = 0
    BY <2>1 DEF Target, Missing
  <2>3. doc[c].model = "client" => Missing(u.top.secret) /\ Missing(u.set.secret)
    BY <1>2 DEF Forbidden
  <2>4. /\ new \in Updates
        /\ doc[c].model = "client" => new = u
        /\ doc[c].model # "client" =>
             \A s \in {new.top.secret, new.set.secret} : ~Missing(s) => s.hashes = 1
    <3>1. CASE doc[c].model = "client"
      BY <2>1, <3>1 DEF Hashed
    <3>2. CASE doc[c].model # "client"
      <4>1. u.top \in Paths /\ u.set \in Paths
        BY <2>1 DEF Updates
      <4>2. new = [u EXCEPT !.top = HashPath(u.top), !.set = HashPath(u.set)]
        BY <3>2 DEF Hashed
      <4>3. /\ HashPath(u.top) \in Paths /\ HashPath(u.set) \in Paths
            /\ ~Missing(HashPath(u.top).secret) => HashPath(u.top).secret.hashes = 1
            /\ ~Missing(HashPath(u.set).secret) => HashPath(u.set).secret.hashes = 1
        BY <2>2, <4>1, HashPathType
      <4> QED
        BY <2>1, <3>2, <4>2, <4>3 DEF Updates
    <3> QED
      BY <3>1, <3>2
  <2>5. /\ update' = [update EXCEPT ![c] = new] /\ pc' = [pc EXCEPT ![c] = "rewrite"]
        /\ UNCHANGED <<db, doc>>
    BY <1>2 DEF UpdateHook, Goto
  <2> HIDE DEF new
  <2>6. Alone(c)
    BY <2>4, <2>5, Same DEF Alone
  <2>7. /\ pc'[c] = "rewrite" /\ doc'[c] = doc[c] /\ update'[c] = new
    BY <2>5 DEF Safe, TypeOK
  <2>8. ~Pending(c)' /\ Updating(c)'
    BY <2>7 DEF Pending, Updating
  <2>9. Target(c)'
    BY <2>1, <2>3, <2>4, <2>5, <2>7 DEF Target, Exists, Missing
  <2>10. Draft(c)'
    BY <2>1, <2>7, <2>8 DEF Safe, Draft, Target
  <2>11. OwnData(c)'
    BY <2>4, <2>7, <2>9, <2>10, Same DEF OwnData
  <2> QED
    BY <2>6, <2>8, <2>11, LocalStep
<1> QED
  BY <1>1, <1>2

LEMMA NextSafe == Safe /\ [Next]_vars => Safe'
<1> SUFFICES ASSUME Safe, [Next]_vars
             PROVE  Safe'
  OBVIOUS
<1>1. CASE UNCHANGED vars
  BY <1>1
     DEF vars, Safe, TypeOK, PasswordIsHashedOnce, Apart, Draft,
         Target, Pending, Updating, Exists
<1>2. ASSUME NEW c \in Caller, Fail(c)
      PROVE  Safe'
  BY <1>2, ReturnIsLocal DEF Fail
<1> QED
  BY <1>1, <1>2, CreateSafe, ValidateSafe, HashBeforeSaveSafe, InsertSafe,
     FindByIdAndUpdateSafe, UpdateHookSafe, UpdateWritesSafe
     DEF Next

(* The documents of users and clients keep their types.                    *)
THEOREM AccountsTyped == Spec => []TypeOK
<1>1. Safe => TypeOK
  BY DEF Safe
<1> QED
  BY <1>1, InitSafe, NextSafe, PTL DEF Spec

(* A stored password has been hashed exactly once, on every path that      *)
(* leads into the database (the hooks of user.ts), unless it is the empty  *)
(* string, which an update stores as it is.                                *)
THEOREM PasswordsAreHashedOnce == Spec => []PasswordIsHashedOnce
<1>1. Safe => PasswordIsHashedOnce
  BY DEF Safe
<1> QED
  BY <1>1, InitSafe, NextSafe, PTL DEF Spec

(* Who writes, and what: only an insert and the two writes of an update.   *)
LEMMA Writers ==
  ASSUME Safe, Next, db' # db
  PROVE  \E c \in Caller : Insert(c) \/ WriteInHook(c) \/ Write(c)
BY DEF Next, Create, Load, resetSecret, Validate, HashBeforeSave, FindByIdAndUpdate, UpdateHook,
       Fail

(* No step gives a client that exists another secret, nor takes a consent  *)
(* away (the hooks of client.ts, $addToSet in consent/index.ts).           *)
LEMMA StepKeeps ==
  ASSUME Safe, Next
  PROVE  /\ \A i \in Client : Exists(i) =>
              db'[i].id = i /\ db'[i].secret \in {db[i].secret, Plain(Empty)}
         /\ \A u \in User : db[u].consents \subseteq db'[u].consents
<1>1. CASE db' = db
  BY <1>1 DEF Safe, TypeOK
<1>2. ASSUME NEW c \in Caller, Insert(c)
      PROVE  \A i \in User \cup Client : i # doc[c].id => db'[i] = db[i]
  BY <1>2 DEF Insert, Safe, TypeOK
<1>3. ASSUME NEW c \in Caller, Insert(c)
      PROVE  ~Exists(doc[c].id)
  BY <1>3 DEF Insert, Safe, Draft, Pending
<1>4. CASE \E c \in Caller : Insert(c)
  <2>1. PICK c \in Caller : Insert(c)
    BY <1>4
  <2>2. ASSUME NEW i \in User \cup Client, ~Exists(i)
        PROVE  db[i].consents = {}
    BY <2>2 DEF Exists, NoDoc
  <2>3. \A i \in Client : Exists(i) => db[i].id = i
    BY DEF Safe, TypeOK
  <2> QED
    BY <1>2, <1>3, <2>1, <2>2, <2>3
<1>5. ASSUME NEW c \in Caller, WriteInHook(c) \/ Write(c)
      PROVE  /\ \A i \in Client : Exists(i) =>
                  db'[i].id = i /\ db'[i].secret \in {db[i].secret, Plain(Empty)}
             /\ \A u \in User : db[u].consents \subseteq db'[u].consents
  <2>1. pc[c] \in {"rewrite", "write"}
    BY <1>5 DEF WriteInHook, Write
  <2>2. db' = [db EXCEPT ![doc[c].id] = Updated(db[doc[c].id], update[c])]
    BY <1>5 DEF WriteInHook, Write
  <2>3. \A i \in Client : Exists(i) => db[i].id = i
    BY DEF Safe, TypeOK
  <2> QED
    BY <2>1, <2>2, <2>3, UpdatedDocument DEF Safe, TypeOK
<1> QED
  BY <1>1, <1>4, <1>5, Writers

(* So a client keeps its id, and its secret until an update empties it.    *)
THEOREM ClientSecretsStay == Spec => ClientSecretStays
<1>1. Safe /\ [Next]_vars =>
        [\A i \in Client : Exists(i) =>
           db'[i].id = i /\ db'[i].secret \in {db[i].secret, Plain(Empty)}]_vars
  BY StepKeeps
<1> QED
  BY <1>1, InitSafe, NextSafe, PTL DEF Spec, ClientSecretStays

(* And a user's consents only grow.                                        *)
THEOREM ConsentsStay == Spec => ConsentsAreKept
<1>1. Safe /\ [Next]_vars => [\A u \in User : db[u].consents \subseteq db'[u].consents]_vars
  BY StepKeeps
<1> QED
  BY <1>1, InitSafe, NextSafe, PTL DEF Spec, ConsentsAreKept

=============================================================================
