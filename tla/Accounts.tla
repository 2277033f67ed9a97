------------------------------- MODULE Accounts -------------------------------
(***************************************************************************)
(* The documents of users and clients and the hooks that guard what they   *)
(* keep secret.                                                            *)
(*                                                                         *)
(* A user's password is stored as a bcrypt hash and a client's secret as   *)
(* it is.  Both are protected by mongoose hooks only, which run before a   *)
(* document is validated or saved and before an update.  The hook of an    *)
(* update writes too: awaiting `this.update()` carries out the update it   *)
(* is a hook of, which is then carried out a second time.                  *)
(*                                                                         *)
(* The hooks test whether they were given a secret at all, and the empty   *)
(* string passes as none.  Callers work concurrently.                      *)
(*                                                                         *)
(* A definition marked `Fault` is no part of the specification: it is the  *)
(* definition below it with a mistake that a property has to notice.       *)
(***************************************************************************)
EXTENDS Integers

CONSTANTS
  User,      \* ids that may be generated for users
  Client,    \* ids that may be generated for clients
  Password,  \* what people choose
  Secret,    \* client secrets that may be generated
  Caller,    \* requests that work at the same time
  Trim,      \* what is left of a password without the white space around it
  Empty,     \* the empty string
  MaxHashes, \* a password is hashed no more often than that
  None

ASSUME HashesAssumption == MaxHashes \in Nat \ {0}
ASSUME TrimAssumption == Trim \in [Password -> Password \cup {Empty}]
ASSUME NamesAssumption ==
  /\ User \cap Client = {} /\ Password \cap Secret = {}
  /\ Empty \notin Password \cup Secret
  /\ None \notin User \cup Client \cup Password \cup Secret \cup {Empty}

VARIABLES
  db,      \* the stored documents
  pc,      \* where a caller is
  doc,     \* the document it holds in memory
  update   \* the update it is carrying out

vars == <<db, pc, doc, update>>

Ids(model) == IF model = "user" THEN User ELSE Client

(* A value and how often it has been hashed.                               *)
Value == [plain : Password \cup Secret \cup {Empty}, hashes : 0..MaxHashes]
NoValue == [plain |-> None, hashes |-> 0]
Plain(v) == [plain |-> v, hashes |-> 0]

(* Neither the hooks nor `required` tell a missing value from an empty one.*)
Missing(v) == v \in {NoValue, Plain(Empty)}

NoDoc == [id |-> None, model |-> "user", secret |-> NoValue, consents |-> {}]
Documents == [id : User \cup Client \cup {None}, model : {"user", "client"},
              secret : Value \cup {NoValue}, consents : SUBSET Client]

Exists(i) == db[i] # NoDoc

(* The paths a caller updates at the top level or with $set, and $addToSet *)
Paths == [id : BOOLEAN, secret : Value \cup {NoValue}]
NoPaths == [id |-> FALSE, secret |-> NoValue]
NoUpdate == [top |-> NoPaths, set |-> NoPaths, add |-> {}]
Updates == [top : Paths, set : Paths, add : SUBSET Client]

TypeOK ==
  /\ db \in [User \cup Client -> Documents]
  /\ \A i \in User \cup Client : Exists(i) =>
       db[i].id = i /\ i \in Ids(db[i].model) /\ db[i].secret \in Value
  /\ pc \in [Caller -> {"idle", "held", "validated", "hashed", "hook", "rewrite", "write"}]
  /\ doc \in [Caller -> Documents]
  /\ update \in [Caller -> Updates]

Init ==
  /\ db = [i \in User \cup Client |-> NoDoc]
  /\ pc = [c \in Caller |-> "idle"]
  /\ doc = [c \in Caller |-> NoDoc]
  /\ update = [c \in Caller |-> NoUpdate]

-----------------------------------------------------------------------------
hashPassword(v) ==
  [v EXCEPT !.hashes = IF @ < MaxHashes THEN @ + 1 ELSE @]

Goto(c, label) == pc' = [pc EXCEPT ![c] = label]

(* A caller is done, or an error has been thrown at it.                    *)
Return(c) ==
  /\ Goto(c, "idle")
  /\ doc' = [doc EXCEPT ![c] = NoDoc]
  /\ update' = [update EXCEPT ![c] = NoUpdate]

(* Secrets and ids are drawn at random: one is never drawn twice.          *)
GenerateSecret ==
  {s \in Secret : \A i \in Client : db[i].secret.plain # s /\
                  \A c \in Caller : doc[c].secret.plain # s}
GenerateId(model) ==
  {i \in Ids(model) : ~Exists(i) /\ \A c \in Caller : doc[c].id # i}

-----------------------------------------------------------------------------
(* Model.create(): the document may come with an id or with a secret.  A   *)
(* password is trimmed when it is set, to be hashed as it is then.         *)
Create(c) ==
  /\ pc[c] = "idle"
  /\ \E model \in {"user", "client"} :
     \E i \in Ids(model) \cup {None} :
     \E s \in {Empty, None} \cup IF model = "user" THEN {Trim[p] : p \in Password} ELSE Secret :
       doc' = [doc EXCEPT ![c] = [id |-> i, model |-> model, secret |-> Plain(s), consents |-> {}]]
  /\ Goto(c, "held")
  /\ UNCHANGED <<db, update>>

(* Model.findById()                                                        *)
Load(c) ==
  /\ pc[c] = "idle"
  /\ \E i \in User \cup Client :
       /\ Exists(i)
       /\ doc' = [doc EXCEPT ![c] = db[i]]
  /\ Goto(c, "held")
  /\ UNCHANGED <<db, update>>

(* The secret is reset in the document in memory, to be saved by the caller*)
resetSecret(c) ==
  /\ pc[c] = "held" /\ doc[c].model = "client"
  /\ \E s \in GenerateSecret : doc' = [doc EXCEPT ![c].secret = Plain(s)]
  /\ UNCHANGED <<db, pc, update>>

(* Fault: no password is required of a user.                               *)
RefusedForItsId(d) == d.id # None \/ (d.model = "client" /\ ~Missing(d.secret))

(* What the hooks before validation refuse, and the paths that are         *)
(* required of a user.  Every document that was loaded has an id.          *)
Refused(d) ==
  \/ d.id # None
  \/ d.model = "client" /\ ~Missing(d.secret)
  \/ d.model = "user" /\ Missing(d.secret)

(* pre('validate')                                                         *)
Validate(c) ==
  /\ pc[c] = "held"
  /\ \/ /\ Refused(doc[c])
        /\ Return(c)
     \/ /\ ~Refused(doc[c])
        /\ \E i \in IF doc[c].id = None THEN GenerateId(doc[c].model) ELSE {doc[c].id} :
           \E s \in IF doc[c].model = "client" THEN {Plain(s) : s \in GenerateSecret}
                                             ELSE {doc[c].secret} :
             doc' = [doc EXCEPT ![c].id = i, ![c].secret = s]
        /\ Goto(c, "validated")
        /\ UNCHANGED update
  /\ UNCHANGED db

(* pre('save'), that only users have                                       *)
HashBeforeSave(c) ==
  /\ pc[c] = "validated"
  /\ doc' = IF doc[c].model = "user"
              THEN [doc EXCEPT ![c].secret = hashPassword(@)] ELSE doc
  /\ Goto(c, "hashed")
  /\ UNCHANGED <<db, update>>

Insert(c) ==
  /\ pc[c] = "hashed"
  /\ db' = [db EXCEPT ![doc[c].id] = doc[c]]
  /\ Return(c)

-----------------------------------------------------------------------------
(* Model.findByIdAndUpdate(), with a password or a client_secret at the    *)
(* top level or with $set, or with the consent of the consent endpoint.    *)
FindByIdAndUpdate(c) ==
  /\ pc[c] = "idle"
  /\ \E i \in User \cup Client :
       /\ Exists(i)
       /\ doc' = [doc EXCEPT ![c] = [NoDoc EXCEPT !.id = i, !.model = db[i].model]]
       /\ \E p \in [id : BOOLEAN, secret : {Plain(s) :
                      s \in {Empty} \cup IF i \in User THEN Password ELSE Secret} \cup {NoValue}] :
          \E add \in IF i \in User THEN SUBSET Client ELSE {{}} :
            \/ update' = [update EXCEPT ![c] = [top |-> p, set |-> NoPaths, add |-> add]]
            \/ update' = [update EXCEPT ![c] = [top |-> NoPaths, set |-> p, add |-> add]]
  /\ Goto(c, "hook")
  /\ UNCHANGED db

(* Fault: only the paths at the top level are looked at.                   *)
ForbiddenAtTop(model, u) ==
  u.top.id \/ (model = "client" /\ ~Missing(u.top.secret))

(* An empty secret is as good as none to the hooks, and is written.        *)
Forbidden(model, u) ==
  \E paths \in {u.top, u.set} :
    paths.id \/ (model = "client" /\ ~Missing(paths.secret))

HashPath(paths) ==
  IF Missing(paths.secret) THEN paths
  ELSE [paths EXCEPT !.secret = hashPassword(@)]

(* Fault: a password that is updated with $set is not hashed.              *)
HashedAtTop(model, u) ==
  IF model = "client" THEN u ELSE [u EXCEPT !.top = HashPath(@)]

(* `this.update()` without await replaces the paths of the update only.    *)
Hashed(model, u) ==
  IF model = "client" THEN u
  ELSE [u EXCEPT !.top = HashPath(@), !.set = HashPath(@)]

(* pre('findOneAndUpdate')                                                 *)
UpdateHook(c) ==
  /\ pc[c] = "hook"
  /\ \/ /\ Forbidden(doc[c].model, update[c])
        /\ Return(c)
     \/ /\ ~Forbidden(doc[c].model, update[c])
        /\ update' = [update EXCEPT ![c] = Hashed(doc[c].model, update[c])]
        /\ Goto(c, "rewrite")
        /\ UNCHANGED doc
  /\ UNCHANGED db

(* Fault: the consents are replaced ($set) by the one that is given.       *)
UpdatedConsents(d, u) ==
  LET secrets == {paths.secret : paths \in {u.top, u.set}} \ {NoValue}
  IN  [d EXCEPT !.consents = IF u.add = {} THEN @ ELSE u.add,
                !.secret = IF secrets = {} THEN @ ELSE CHOOSE s \in secrets : TRUE]

(* What an update makes of a document; nothing validates it.  At most one  *)
(* of its parts has a secret.                                              *)
Updated(d, u) ==
  LET secrets == {paths.secret : paths \in {u.top, u.set}} \ {NoValue}
  IN  [d EXCEPT !.consents = @ \cup u.add,
                !.secret = IF secrets = {} THEN @ ELSE CHOOSE s \in secrets : TRUE]

(* await this.update({}, {$inc}) carries the whole update out.             *)
WriteInHook(c) ==
  /\ pc[c] = "rewrite"
  /\ db' = [db EXCEPT ![doc[c].id] = Updated(db[doc[c].id], update[c])]
  /\ Goto(c, "write")
  /\ UNCHANGED <<doc, update>>

Write(c) ==
  /\ pc[c] = "write"
  /\ db' = [db EXCEPT ![doc[c].id] = Updated(db[doc[c].id], update[c])]
  /\ Return(c)

-----------------------------------------------------------------------------
(* The database cannot be reached or no random bytes can be had, and the   *)
(* error is the caller's; or the caller drops the document that it holds.  *)
Fail(c) ==
  /\ pc[c] \in {"held", "hashed", "hook", "rewrite", "write"}
  /\ Return(c)
  /\ UNCHANGED db

Next == \E c \in Caller :
  \/ Create(c) \/ Load(c) \/ resetSecret(c) \/ Validate(c) \/ HashBeforeSave(c) \/ Insert(c)
  \/ FindByIdAndUpdate(c) \/ UpdateHook(c) \/ WriteInHook(c) \/ Write(c)
  \/ Fail(c)

Spec == Init /\ [][Next]_vars

-----------------------------------------------------------------------------
(* A password is stored as a hash of what was given and never as a hash of *)
(* a hash, although the hook of save() hashes whatever the document has,   *)
(* the hook of an update hashes in two places and the update is carried    *)
(* out twice.  The exception is the empty string, which only an update     *)
(* stores, as it is.                                                       *)
PasswordIsHashedOnce ==
  \A u \in User : Exists(u) => db[u].secret.hashes = 1 \/ db[u].secret = Plain(Empty)

(* A client keeps its id and the secret it was created with, by which it   *)
(* authenticates and its HS256 tokens are signed: neither an update in     *)
(* either form nor resetSecret() and a save() puts another secret in its   *)
(* place.  An update can only empty it, and then it stays empty.           *)
ClientSecretStays ==
  [][\A i \in Client : Exists(i) =>
       db'[i].id = i /\ db'[i].secret \in {db[i].secret, Plain(Empty)}]_vars

(* A consent that is stored survives the updates of others, of consents    *)
(* and of passwords, and each of their two writes.                         *)
ConsentsAreKept ==
  [][\A u \in User : db[u].consents \subseteq db'[u].consents]_vars

=============================================================================
