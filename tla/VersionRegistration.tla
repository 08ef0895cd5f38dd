------------------------ MODULE VersionRegistration -------------------------
(***************************************************************************)
(* Registering versions of services: by CI with an idempotency key         *)
(* (RegisterVersion, internal/app/version_registration.go) and by hand     *)
(* (createServiceVersion, internal/httpapi/inventory.go).  Both look first *)
(* and leave the decision to two unique indexes.                           *)
(***************************************************************************)
EXTENDS FiniteSets

CONSTANTS
  Entry,     \* ids of service versions
  Client,    \* requests being served at the same time
  Service,
  Name,      \* version numbers
  Content,   \* commits with their artifacts
  Metadata,  \* what a CI run says of itself
  Key,       \* idempotency keys
  Audited,   \* the keys whose events are kept
  NoEntry, NoKey, NoHash, NoCall

ASSUME RegistrationAssumption ==
  /\ NoEntry \notin Entry
  /\ NoKey \notin Key
  /\ NoHash \notin Name \X Content
  /\ Audited \subseteq Key

VARIABLES
  row,     \* service_versions; NoEntry is a row not inserted
  events,  \* service_version_events: the version answered and the key
  step,    \* the step a request is at
  call,    \* what it asks for
  item     \* the version it was given

vars == <<row, events, step, call, item>>

Source == {"ci", "manual"}

Call ==
  [source : Source, service : Service, name : Name, content : Content,
   metadata : Metadata, key : Key \cup {NoKey}]

Row ==
  [source : Source, service : Service, name : Name, content : Content,
   key : Key \cup {NoKey}, hash : (Name \X Content) \cup {NoHash}]

ASSUME RowAssumption == NoEntry \notin Row /\ NoCall \notin Call

Step ==
  {"idle", "by_key", "by_name", "insert", "event", "answered",
   "idempotency_conflict", "version_conflict", "duplicate"}

RegistrationInit ==
  /\ row = [e \in Entry |-> NoEntry]
  /\ events = {}
  /\ step = [c \in Client |-> "idle"]
  /\ call = [c \in Client |-> NoCall]
  /\ item = [c \in Client |-> NoEntry]

-----------------------------------------------------------------------------

Registered == {e \in Entry : row[e] # NoEntry}
WithKey(s, k) == {e \in Registered : row[e].service = s /\ row[e].key = k}
WithName(s, n) == {e \in Registered : row[e].service = s /\ row[e].name = n}

\* Mutants: the fingerprint has the metadata in it; it lacks the artifact.
RegistrationRequestHash_All(a) == <<a.name, a.content, a.metadata>>
RegistrationRequestHash_Name(a) == <<a.name>>

\* The fingerprint of what stays the same when a CI job runs again.
RegistrationRequestHash(a) == <<a.name, a.content>>

\* Only CI stores a fingerprint.
StoredHash(a) == IF a.source = "ci" THEN RegistrationRequestHash(a) ELSE NoHash

\* Mutants: one of the unique indexes is missing.
NameIsFree_Always(s, n) == s = s /\ n = n
KeyIsFree_Always(s, k) == s = s /\ k = k

\* UNIQUE (service_id, version).
NameIsFree(s, n) == WithName(s, n) = {}

\* The unique index on (service_id, registration_idempotency_key); null keys
\* do not collide.
KeyIsFree(s, k) == k = NoKey \/ WithKey(s, k) = {}

Goto(c, s) == step' = [step EXCEPT ![c] = s]

Free(c) ==
  step[c] \in {"idle", "answered", "idempotency_conflict", "version_conflict", "duplicate"}

\* Registration by hand carries no key and goes on with the number.
Begin(c, a) ==
  /\ Free(c)
  /\ a.source = "manual" => a.key = NoKey
  /\ call' = [call EXCEPT ![c] = a]
  /\ item' = [item EXCEPT ![c] = NoEntry]
  /\ Goto(c, IF a.source = "ci" /\ a.key # NoKey THEN "by_key" ELSE "by_name")
  /\ UNCHANGED <<row, events>>

Found(c, e, conflict) ==
  /\ IF row[e].hash = RegistrationRequestHash(call[c]) /\ call[c].source = "ci"
     THEN Goto(c, "event") /\ item' = [item EXCEPT ![c] = e]
     ELSE Goto(c, conflict) /\ UNCHANGED item
  /\ UNCHANGED <<row, events, call>>

FindByKey(c, e) ==
  /\ step[c] = "by_key"
  /\ e \in WithKey(call[c].service, call[c].key)
  /\ Found(c, e, "idempotency_conflict")

KeyNotFound(c) ==
  /\ step[c] = "by_key"
  /\ WithKey(call[c].service, call[c].key) = {}
  /\ Goto(c, "by_name")
  /\ UNCHANGED <<row, events, call, item>>

\* By hand, a number that exists is a conflict whatever its content.
FindByName(c, e) ==
  /\ step[c] = "by_name"
  /\ e \in WithName(call[c].service, call[c].name)
  /\ Found(c, e, "version_conflict")

NameNotFound(c) ==
  /\ step[c] = "by_name"
  /\ WithName(call[c].service, call[c].name) = {}
  /\ Goto(c, "insert")
  /\ UNCHANGED <<row, events, call, item>>

CreateServiceVersion(c, e) ==
  /\ step[c] = "insert"
  /\ row[e] = NoEntry
  /\ NameIsFree(call[c].service, call[c].name)
  /\ KeyIsFree(call[c].service, call[c].key)
  /\ row' = [row EXCEPT ![e] =
               [source |-> call[c].source, service |-> call[c].service, name |-> call[c].name,
                content |-> call[c].content, key |-> call[c].key, hash |-> StoredHash(call[c])]]
  /\ item' = [item EXCEPT ![c] = e]
  /\ Goto(c, "event")
  /\ UNCHANGED <<events, call>>

\* The insert fails on an index: an error, without another look.
InsertRefused(c) ==
  /\ step[c] = "insert"
  /\ ~(NameIsFree(call[c].service, call[c].name) /\ KeyIsFree(call[c].service, call[c].key))
  /\ Goto(c, "duplicate")
  /\ UNCHANGED <<row, events, call, item>>

\* version_registered; an error of its insert is ignored.
RecordVersionRegistered(c) ==
  /\ step[c] = "event"
  /\ \E written \in SUBSET {<<item[c], call[c].key>>} : events' = events \cup (written \cap (Entry \X Audited))
  /\ Goto(c, "answered")
  /\ UNCHANGED <<row, call, item>>

\* The service is unknown or disabled, the database fails, the process ends.
GiveUp(c) ==
  /\ ~Free(c)
  /\ Goto(c, "idle")
  /\ call' = [call EXCEPT ![c] = NoCall]
  /\ item' = [item EXCEPT ![c] = NoEntry]
  /\ UNCHANGED <<row, events>>

Handle(c) ==
  \/ \E a \in Call : Begin(c, a)
  \/ \E e \in Entry : FindByKey(c, e) \/ FindByName(c, e) \/ CreateServiceVersion(c, e)
  \/ KeyNotFound(c)
  \/ NameNotFound(c)
  \/ InsertRefused(c)
  \/ RecordVersionRegistered(c)
  \/ GiveUp(c)

RegistrationNext == \E c \in Client : Handle(c)

RegistrationSpec == RegistrationInit /\ [][RegistrationNext]_vars

-----------------------------------------------------------------------------

\* Versions and requests have their types.
RegistrationTypeOK ==
  /\ row \in [Entry -> Row \cup {NoEntry}]
  /\ events \subseteq Entry \X Audited
  /\ step \in [Client -> Step]
  /\ call \in [Client -> Call \cup {NoCall}]
  /\ item \in [Client -> Entry \cup {NoEntry}]

\* CI jobs and people that register at the same time leave one version of a
\* number, and one of a key.
NumbersAndKeysAreUnique ==
  \A d, e \in Registered :
    /\ row[d].service = row[e].service
    /\ row[d].name = row[e].name \/ (row[d].key = row[e].key /\ row[d].key # NoKey)
    => d = e

\* The version a request is given has the number and the content it asked
\* for, whether it is its own or one that was found.
AnswerIsWhatWasAsked ==
  \A c \in Client : step[c] \in {"event", "answered"} =>
    /\ item[c] \in Registered
    /\ row[item[c]].service = call[c].service
    /\ row[item[c]].name = call[c].name
    /\ row[item[c]].content = call[c].content

\* A conflict is never the answer to a mere repetition: the version of that
\* number, or of that key, has another content or was registered by hand.
ConflictHasAReason ==
  \A c \in Client :
    /\ step[c] = "version_conflict" /\ call[c].source = "ci" =>
         \E e \in WithName(call[c].service, call[c].name) :
           row[e].content # call[c].content \/ row[e].source = "manual"
    /\ step[c] = "idempotency_conflict" =>
         \E e \in WithKey(call[c].service, call[c].key) :
           row[e].content # call[c].content \/ row[e].name # call[c].name

-----------------------------------------------------------------------------
(* A number is to a service what an idempotency key is to a caller: it is  *)
(* bound to the one version that has it.                                   *)

NumberBinding(k) ==
  IF WithName(k[1], k[2]) = {} THEN NoEntry
  ELSE LET e == CHOOSE e \in WithName(k[1], k[2]) : TRUE
       IN  [item |-> e, content |-> row[e].content]

RequestAnswer(c) ==
  IF step[c] = "answered"
  THEN [key |-> <<call[c].service, call[c].name>>, item |-> item[c], content |-> call[c].content]
  ELSE NoEntry

Numbers == INSTANCE IdempotentKeys WITH
  Key <- Service \X Name,
  Item <- Entry,
  Unbound <- NoEntry,
  NoReply <- NoEntry,
  bound <- [k \in Service \X Name |-> NumberBinding(k)],
  reply <- [c \in Client |-> RequestAnswer(c)]

ASSUME NumberAssumption == NoEntry \notin Numbers!Binding

\* The number of a service is bound once, to one version and its content, and
\* every registration that is answered, by CI or by hand, a first one or a
\* repeated one, asked for that content and is given that version.
ImplementsIdempotentNumbers == Numbers!KeysSpec
=============================================================================
