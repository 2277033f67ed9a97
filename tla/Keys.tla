--------------------------------- MODULE Keys ---------------------------------
(***************************************************************************)
(* The cookie secrets and the key pairs of the provider: getKeys(), which  *)
(* loads them from the database or creates and stores them, the in-memory  *)
(* keystore and cache of every process, and the requests that use them.    *)
(*                                                                         *)
(* Processes (or function instances) share the document `master` and       *)
(* nothing else.  Inside a process all calls share one keystore and one    *)
(* cache; calls that start before the cache is filled run side by side.    *)
(*                                                                         *)
(* Secrets and key pairs are named after the call that has created them.   *)
(*                                                                         *)
(* A definition marked `Fault` is no part of the specification: it is the  *)
(* definition below it with a mistake that a property has to notice.       *)
(***************************************************************************)
EXTENDS FiniteSets

CONSTANTS
  Process,      \* processes of the provider
  Call,         \* calls of getKeys(), one per request that needs keys
  Alg,          \* the configured algorithms that have a key pair (not HS*)
  Provisioned,  \* names what was stored before the provider first started
  Initially,    \* the states the document `master` may start in
  None

StoredKeys == [cookies : {Provisioned} \cup Call, keys : [Alg -> {Provisioned} \cup Call] \cup {None}]

ASSUME AlgAssumption == Alg # {}
ASSUME NamesAssumption == None \notin Call \cup {Provisioned} /\ Provisioned \notin Call
ASSUME InitiallyAssumption == Initially \subseteq StoredKeys \cup {None}

VARIABLES
  master,    \* the document in the database
  cached,    \* per process: the secrets in the variable `keys`, None if unset
  keystore,  \* per process: the key pair of every algorithm, None if missing
  late,      \* per process: whether it started when master was stored already
  pc,        \* where each call is, or how its request was answered
  at,        \* the process that serves it
  secrets,   \* the cookie secrets it works with
  todo,      \* the algorithms whose key pair it has yet to import or generate
  answer     \* what its request has made of the keys

vars == <<master, cached, keystore, late, pc, at, secrets, todo, answer>>

Origin == {Provisioned} \cup Call
Running == {"fetch", "keys", "import", "generate", "save", "use"}
Initialising == Running \ {"use"}
Ended == {"ok", "failed", "crashed"}
NoKeys == [alg \in Alg |-> None]
NoAnswer == [kind |-> None]

Answer == {NoAnswer}
            \cup [kind : {"cookies"}, secrets : Origin]
            \cup [kind : {"id_token"}, alg : Alg, key : Origin]
            \cup [kind : {"jwks"}, keys : [Alg -> Origin \cup {None}]]

TypeOK ==
  /\ master \in StoredKeys \cup {None}
  /\ cached \in [Process -> Origin \cup {None}]
  /\ keystore \in [Process -> [Alg -> Origin \cup {None}]]
  /\ late \in [Process -> BOOLEAN]
  /\ pc \in [Call -> {"idle"} \cup Running \cup Ended]
  /\ at \in [Call -> Process \cup {None}]
  /\ secrets \in [Call -> Origin \cup {None}]
  /\ todo \in [Call -> SUBSET Alg]
  /\ answer \in [Call -> Answer]

Init ==
  /\ master \in Initially
  /\ cached = [p \in Process |-> None]
  /\ keystore = [p \in Process |-> NoKeys]
  /\ late = [p \in Process |-> master # None]
  /\ pc = [c \in Call |-> "idle"]
  /\ at = [c \in Call |-> None]
  /\ secrets = [c \in Call |-> None]
  /\ todo = [c \in Call |-> {}]
  /\ answer = [c \in Call |-> NoAnswer]

-----------------------------------------------------------------------------
(* getKeys().                                                              *)

Goto(c, label) == pc' = [pc EXCEPT ![c] = label]

Hold(c, origin) == secrets' = [secrets EXCEPT ![c] = origin]

Begin(c, p) ==
  /\ pc[c] = "idle"
  /\ at' = [at EXCEPT ![c] = p]
  /\ Hold(c, cached[p])
  /\ Goto(c, IF cached[p] # None THEN "use" ELSE "fetch")
  /\ UNCHANGED <<master, cached, keystore, late, todo, answer>>

(* Fault: an error of the database counts as NOT_FOUND.                    *)
FetchOrCreate(c) ==
  /\ pc[c] = "fetch"
  /\ \/ Hold(c, c)
     \/ master # None /\ Hold(c, master.cookies)
  /\ Goto(c, "keys")
  /\ UNCHANGED <<master, cached, keystore, late, at, todo, answer>>

(* Only a document that is not there makes a call create keys.             *)
Fetch(c) ==
  /\ pc[c] = "fetch"
  /\ Hold(c, IF master = None THEN c ELSE master.cookies)
  /\ Goto(c, "keys")
  /\ UNCHANGED <<master, cached, keystore, late, at, todo, answer>>

Creates(c) == secrets[c] = c

HasStoredKeys(c) == ~Creates(c) /\ master.keys # None

(* KeyStore.import starts with a new, empty map ...                        *)
StartImport(c) ==
  /\ pc[c] = "keys" /\ HasStoredKeys(c)
  /\ keystore' = [keystore EXCEPT ![at[c]] = NoKeys]
  /\ todo' = [todo EXCEPT ![c] = Alg]
  /\ Goto(c, "import")
  /\ UNCHANGED <<master, cached, late, at, secrets, answer>>

(* Fault: the map is replaced for every key that is added.                 *)
AddKeyToNewMap(c, alg, origin) ==
  /\ alg \in todo[c]
  /\ keystore' = [keystore EXCEPT ![at[c]] = [NoKeys EXCEPT ![alg] = origin]]
  /\ todo' = [todo EXCEPT ![c] = @ \ {alg}]
  /\ UNCHANGED <<master, cached, late, pc, at, secrets, answer>>

(* ... and adds one key at a time.                                         *)
AddKey(c, alg, origin) ==
  /\ alg \in todo[c]
  /\ keystore' = [keystore EXCEPT ![at[c]][alg] = origin]
  /\ todo' = [todo EXCEPT ![c] = @ \ {alg}]
  /\ UNCHANGED <<master, cached, late, pc, at, secrets, answer>>

ImportKey(c, alg) == pc[c] = "import" /\ AddKey(c, alg, master.keys[alg])

(* Keys are generated only if the keystore is empty: one key that another  *)
(* call has added is enough for this one to go on.                         *)
EnsureKeys(c) ==
  /\ \/ pc[c] = "keys" /\ ~HasStoredKeys(c)
     \/ pc[c] = "import" /\ todo[c] = {}
  /\ todo' = [todo EXCEPT ![c] = IF keystore[at[c]] = NoKeys THEN Alg ELSE {}]
  /\ Goto(c, "generate")
  /\ UNCHANGED <<master, cached, keystore, late, at, secrets, answer>>

GenerateKey(c, alg) == pc[c] = "generate" /\ AddKey(c, alg, c)

(* The cache is filled before anything is saved.                           *)
Cache(c) ==
  /\ pc[c] = "generate" /\ todo[c] = {}
  /\ cached' = [cached EXCEPT ![at[c]] = secrets[c]]
  /\ Goto(c, IF Creates(c) THEN "save" ELSE "use")
  /\ UNCHANGED <<master, keystore, late, at, secrets, todo, answer>>

(* Fault: the cookie secrets are not awaited before they are stored.       *)
SaveUnresolved(c) ==
  /\ pc[c] = "save" /\ master = None
  /\ master' = [cookies |-> None, keys |-> None]
  /\ Hold(c, cached[at[c]])
  /\ Goto(c, "use")
  /\ UNCHANGED <<cached, keystore, late, at, todo, answer>>

(* Fault: a call that finds the keys stored by another one waits.          *)
SaveFirst(c) ==
  /\ pc[c] = "save" /\ master = None
  /\ master' = [cookies |-> secrets[c], keys |-> None]
  /\ Hold(c, cached[at[c]])
  /\ Goto(c, "use")
  /\ UNCHANGED <<cached, keystore, late, at, todo, answer>>

(* KeyModel.create: a second document with the id `master` is refused.     *)
(* The exported key pairs are spread before their promise has resolved, so *)
(* the document holds the cookie secrets only.  What is returned is the    *)
(* cache, which may be that of another call by now.                        *)
Save(c) ==
  /\ pc[c] = "save"
  /\ IF master = None
       THEN /\ master' = [cookies |-> secrets[c], keys |-> None]
            /\ Hold(c, cached[at[c]])
            /\ Goto(c, "use")
       ELSE Goto(c, "failed") /\ UNCHANGED <<master, secrets>>
  /\ UNCHANGED <<cached, keystore, late, at, todo, answer>>

(* The database, or decrypting what it holds, fails.                       *)
Fail(c) ==
  /\ pc[c] \in {"fetch", "save"}
  /\ Goto(c, "failed")
  /\ UNCHANGED <<master, cached, keystore, late, at, secrets, todo, answer>>

-----------------------------------------------------------------------------
(* What requests do with the keys.                                         *)

Reply(c, a) ==
  /\ pc[c] = "use"
  /\ answer' = [answer EXCEPT ![c] = a]
  /\ Goto(c, "ok")
  /\ UNCHANGED <<master, cached, keystore, late, at, secrets, todo>>

(* The cookies of the request are verified and signed with the secrets.    *)
SignCookies(c) == Reply(c, [kind |-> "cookies", secrets |-> secrets[c]])

(* Signing with a key that is not there throws.                            *)
SignIdToken(c, alg) ==
  /\ pc[c] = "use"
  /\ LET key == keystore[at[c]][alg] IN
       IF key # None
         THEN Reply(c, [kind |-> "id_token", alg |-> alg, key |-> key])
         ELSE /\ Goto(c, "failed")
              /\ UNCHANGED <<master, cached, keystore, late, at, secrets, todo, answer>>

PublishKeys(c) == Reply(c, [kind |-> "jwks", keys |-> keystore[at[c]]])

-----------------------------------------------------------------------------
(* A process ends, with its memory and its calls, and is started again.    *)
Restart(p) ==
  LET hit == {c \in Call : at[c] = p /\ pc[c] \in Running} IN
  /\ cached' = [cached EXCEPT ![p] = None]
  /\ keystore' = [keystore EXCEPT ![p] = NoKeys]
  /\ late' = [late EXCEPT ![p] = master # None]
  /\ pc' = [c \in Call |-> IF c \in hit THEN "crashed" ELSE pc[c]]
  /\ todo' = [c \in Call |-> IF c \in hit THEN {} ELSE todo[c]]
  /\ UNCHANGED <<master, at, secrets, answer>>

GetKeys(c) ==
  \/ Fetch(c) \/ StartImport(c) \/ EnsureKeys(c) \/ Cache(c) \/ Save(c)
  \/ \E alg \in Alg : ImportKey(c, alg) \/ GenerateKey(c, alg)

Use(c) ==
  \/ SignCookies(c) \/ PublishKeys(c)
  \/ \E alg \in Alg : SignIdToken(c, alg)

Next ==
  \/ \E p \in Process : Restart(p) \/ \E c \in Call : Begin(c, p)
  \/ \E c \in Call : GetKeys(c) \/ Fail(c) \/ Use(c)

Spec == Init /\ [][Next]_vars

(* Every promise settles.                                                  *)
FairSpec == Spec /\ \A c \in Call : WF_vars(GetKeys(c) \/ Use(c))

-----------------------------------------------------------------------------
(* Properties.                                                             *)

(* A process that starts when keys are stored never signs a cookie with    *)
(* secrets of its own, whatever fails while it loads them: the cookies of  *)
(* one process are good for every other (keys/index.ts rethrows anything   *)
(* but NOT_FOUND).                                                         *)
LateProcessesAgree ==
  \A p \in Process : late[p] /\ cached[p] # None => cached[p] = master.cookies

(* Calls that start side by side may find each other's keystore empty or   *)
(* half filled; once the last of them is done, a process has a key pair    *)
(* for every algorithm (`!keystore.size` in keys/jwks.ts is asked twice).  *)
WarmKeystoreIsComplete ==
  \A p \in Process :
    cached[p] # None /\ (\A c \in Call : at[c] = p => pc[c] \notin Initialising)
      => \A alg \in Alg : keystore[p][alg] # None

(* Every call is answered, unless its process ends: no call waits for the  *)
(* one that is creating the keys.                                          *)
EveryCallAnswered == \A c \in Call : pc[c] # "idle" ~> pc[c] \in Ended

(* "JWKS endpoint for returning the public key for verifying the signature *)
(* of the ID token": what it returns verifies the tokens signed so far.    *)
PublishedKeyVerifies ==
  [][\A c, d \in Call :
       /\ answer[c].kind = "id_token"
       /\ answer[d] = NoAnswer /\ answer'[d].kind = "jwks"
       => answer'[d].keys[answer[c].alg] = answer[c].key]_vars

=============================================================================
