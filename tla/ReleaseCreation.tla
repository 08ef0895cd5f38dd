-------------------------- MODULE ReleaseCreation ---------------------------
(***************************************************************************)
(* Creating releases: Create with an idempotency key, CreateRollback and   *)
(* Retry (internal/app/release.go).  The key is looked up first and its    *)
(* unique index decides at the insert; a rollback is linked to the release *)
(* it undoes by a second statement, after Create has answered.             *)
(*                                                                         *)
(* A release's life after the insert is ReleaseSystem's subject; here it   *)
(* ends in one step, Conclude.  A preflight that blocks is a GiveUp.       *)
(***************************************************************************)
EXTENDS FiniteSets

CONSTANTS
  Release,    \* ids of releases
  Client,     \* requests being served at the same time
  Target,     \* deployment targets
  LineOf,     \* the service and environment of each target
  Version,    \* service versions
  Creator,    \* users and API keys
  Key,        \* idempotency keys
  Audited,    \* the event types that are kept
  Ending,     \* the statuses a release may end with
  NoRelease, NoVersion, NoKey, NoTarget, NoCreator

ASSUME CreationAssumption ==
  /\ NoRelease \notin Release
  /\ NoVersion \notin Version
  /\ NoKey \notin Key
  /\ Ending \subseteq {"success", "failed", "cancelled"}

VARIABLES
  row,      \* release_requests; NoRelease is a row not inserted
  newer,    \* the pairs of releases in the order of updated_at, newest first
  later,    \* history: the pairs of a release and one that had ended well before
  events,   \* release_events
  step,     \* the step a request is at
  call,     \* what it asks for
  version,  \* the version it resolved to
  item      \* the release Create gave it

tables == <<row, newer, later, events>>
request == <<step, call, version, item>>
vars == <<row, newer, later, events, step, call, version, item>>

Operation == {"create", "rollback", "retry"}

Call ==
  [op : Operation, original : Release \cup {NoRelease}, version : Version \cup {NoVersion},
   target : Target, key : Key \cup {NoKey}, creator : Creator]

NoCall ==
  [op |-> "create", original |-> NoRelease, version |-> NoVersion,
   target |-> NoTarget, key |-> NoKey, creator |-> NoCreator]

\* op is the type in the metadata; named, the version the call named, is in
\* no column: it is history.
Row ==
  [target : Target, version : Version, key : Key \cup {NoKey}, creator : Creator,
   named : Version \cup {NoVersion}, op : Operation, rollbackOf : Release \cup {NoRelease},
   status : {"pending"} \cup Ending]

ASSUME RowAssumption == NoRelease \notin Row

Step ==
  {"idle", "choose", "lookup", "insert", "created_event", "link", "op_event",
   "answered", "conflict", "duplicate"}

CreationInit ==
  /\ row = [r \in Release |-> NoRelease]
  /\ newer = {}
  /\ later = {}
  /\ events = {}
  /\ step = [c \in Client |-> "idle"]
  /\ call = [c \in Client |-> NoCall]
  /\ version = [c \in Client |-> NoVersion]
  /\ item = [c \in Client |-> NoRelease]

-----------------------------------------------------------------------------

Inserted == {r \in Release : row[r] # NoRelease}
WithKey(k) == {r \in Inserted : row[r].key = k}

\* updated_at of r is now.
Touch(r) ==
  newer' = {p \in newer : r \notin {p[1], p[2]}} \cup ({r} \X (Inserted \ {r}))

\* Mutant: the candidates come in any order.
Newest_AnyOrder(r, S) == r \in S

Newest(r, S) == r \in S /\ \A other \in S \ {r} : <<r, other>> \in newer

\* The releases that ended well on the service and environment of o.
Deployed(o) ==
  {r \in Inserted : LineOf[row[r].target] = LineOf[row[o].target] /\ row[r].status = "success"}

\* RollbackCandidates: those with another version than o's.
Candidates(o) == {r \in Deployed(o) : row[r].version # row[o].version}

\* Mutants: the target, and the creator, are not compared.
SameIdempotentCreate_AnyTarget(r, c) ==
  row[r].version = version[c] /\ row[r].creator = call[c].creator
SameIdempotentCreate_AnyCreator(r, c) ==
  row[r].version = version[c] /\ row[r].target = call[c].target

\* Create's comparison of a release found by its key; neither the operation
\* nor the release to roll back is part of it.
SameIdempotentCreate(r, c) ==
  /\ row[r].target = call[c].target
  /\ row[r].version = version[c]
  /\ row[r].creator = call[c].creator

\* Mutant: the index is not unique.
KeyIsFree_Always(k) == k = k

\* The unique index on idempotency_key, where it is not null.
KeyIsFree(k) == k = NoKey \/ WithKey(k) = {}

\* Mutant: the event of a rollback comes before its link.
AfterCreate_NoLink(op) == IF op = "create" THEN "answered" ELSE "op_event"

\* Where the handler goes on with the release that Create gave it.
AfterCreate(op) ==
  CASE op = "create" -> "answered"
    [] op = "rollback" -> "link"
    [] op = "retry" -> "op_event"

Goto(c, s) == step' = [step EXCEPT ![c] = s]

\* A request that is over makes room for the next one.
Free(c) == step[c] \in {"idle", "answered", "conflict", "duplicate"}

Begin(c, asked, resolved) ==
  /\ Free(c)
  /\ call' = [call EXCEPT ![c] = asked]
  /\ version' = [version EXCEPT ![c] = resolved]
  /\ item' = [item EXCEPT ![c] = NoRelease]
  /\ Goto(c, IF resolved = NoVersion THEN "choose" ELSE "lookup")
  /\ UNCHANGED tables

-----------------------------------------------------------------------------

CreateBegin(c, t, v, k, u) ==
  Begin(c, [op |-> "create", original |-> NoRelease, version |-> v,
            target |-> t, key |-> k, creator |-> u], v)

\* Any release can be rolled back, whatever its status.
RollbackBegin(c, o, v, k, u) ==
  /\ row[o] # NoRelease
  /\ Begin(c, [op |-> "rollback", original |-> o, version |-> v,
               target |-> row[o].target, key |-> k, creator |-> u], v)

\* Mutant: a release that is over can be retried.
MayRetry_Ended(o) == row[o].status # "pending"

MayRetry(o) == row[o].status = "failed"

RetryBegin(c, o, k, u) ==
  /\ row[o] # NoRelease
  /\ MayRetry(o)
  /\ Begin(c, [op |-> "retry", original |-> o, version |-> row[o].version,
               target |-> row[o].target, key |-> k, creator |-> u], row[o].version)

\* The version a candidate's release is of.
VersionOf(r) == row[r].version

\* A rollback that names no version takes the first candidate.
RollbackChoose(c, r) ==
  /\ step[c] = "choose"
  /\ Newest(r, Candidates(call[c].original))
  /\ version' = [version EXCEPT ![c] = VersionOf(r)]
  /\ Goto(c, "lookup")
  /\ UNCHANGED <<tables, call, item>>

LookupMisses(c) ==
  /\ step[c] = "lookup"
  /\ KeyIsFree(call[c].key)
  /\ Goto(c, "insert")
  /\ UNCHANGED <<tables, call, version, item>>

Replay(c, r) ==
  /\ step[c] = "lookup"
  /\ r \in WithKey(call[c].key)
  /\ call[c].key # NoKey
  /\ SameIdempotentCreate(r, c)
  /\ item' = [item EXCEPT ![c] = r]
  /\ Goto(c, AfterCreate(call[c].op))
  /\ UNCHANGED <<tables, call, version>>

Conflict(c, r) ==
  /\ step[c] = "lookup"
  /\ r \in WithKey(call[c].key)
  /\ call[c].key # NoKey
  /\ ~SameIdempotentCreate(r, c)
  /\ Goto(c, "conflict")
  /\ UNCHANGED <<tables, call, version, item>>

CreateReleaseRequest(c, r) ==
  /\ step[c] = "insert"
  /\ row[r] = NoRelease
  /\ KeyIsFree(call[c].key)
  /\ row' = [row EXCEPT ![r] =
               [target |-> call[c].target, version |-> version[c], key |-> call[c].key,
                creator |-> call[c].creator, named |-> call[c].version, op |-> call[c].op,
                rollbackOf |-> NoRelease, status |-> "pending"]]
  /\ Touch(r)
  /\ item' = [item EXCEPT ![c] = r]
  /\ Goto(c, "created_event")
  /\ UNCHANGED <<later, events, call, version>>

\* The insert fails on the index: an error, without another look at the key.
InsertRefused(c) ==
  /\ step[c] = "insert"
  /\ ~KeyIsFree(call[c].key)
  /\ Goto(c, "duplicate")
  /\ UNCHANGED <<tables, call, version, item>>

\* CreateReleaseEvent, whose error is ignored.
WriteEvent(c, e) ==
  /\ \E written \in SUBSET {<<item[c], e>>} : events' = events \cup (written \cap (Release \X Audited))
  /\ UNCHANGED <<row, newer, later, call, version, item>>

CreatedEvent(c) ==
  /\ step[c] = "created_event"
  /\ WriteEvent(c, "release_created")
  /\ Goto(c, AfterCreate(call[c].op))

\* The link sets updated_at, also where Create gave a release that is over.
SetReleaseRollbackOf(c) ==
  /\ step[c] = "link"
  /\ row' = [row EXCEPT ![item[c]].rollbackOf = call[c].original]
  /\ Touch(item[c])
  /\ later' = {p \in later : p[2] # item[c]}
  /\ Goto(c, "op_event")
  /\ UNCHANGED <<events, call, version, item>>

OperationEvent(c) ==
  /\ step[c] = "op_event"
  /\ WriteEvent(c, IF call[c].op = "retry" THEN "release_retried" ELSE "rollback_requested")
  /\ Goto(c, "answered")

\* An error of a check or of the database, or the end of the process.
GiveUp(c) ==
  /\ ~Free(c)
  /\ Goto(c, "idle")
  /\ call' = [call EXCEPT ![c] = NoCall]
  /\ version' = [version EXCEPT ![c] = NoVersion]
  /\ item' = [item EXCEPT ![c] = NoRelease]
  /\ UNCHANGED tables

\* The release's life after its creation.
Conclude(r, result) ==
  /\ row[r] # NoRelease
  /\ row[r].status = "pending"
  /\ row' = [row EXCEPT ![r].status = result]
  /\ Touch(r)
  /\ later' = IF result = "success" THEN later \cup ({r} \X Deployed(r)) ELSE later
  /\ UNCHANGED <<events, request>>

Handle(c) ==
  \/ \E t \in Target, v \in Version, k \in Key \cup {NoKey}, u \in Creator : CreateBegin(c, t, v, k, u)
  \/ \E o \in Release, v \in Version \cup {NoVersion}, k \in Key \cup {NoKey}, u \in Creator :
       RollbackBegin(c, o, v, k, u)
  \/ \E o \in Release, k \in Key \cup {NoKey}, u \in Creator : RetryBegin(c, o, k, u)
  \/ LookupMisses(c)
  \/ \E r \in Release :
       RollbackChoose(c, r) \/ Replay(c, r) \/ Conflict(c, r) \/ CreateReleaseRequest(c, r)
  \/ InsertRefused(c)
  \/ CreatedEvent(c)
  \/ SetReleaseRollbackOf(c)
  \/ OperationEvent(c)
  \/ GiveUp(c)

CreationNext ==
  \/ \E c \in Client : Handle(c)
  \/ \E r \in Release, result \in Ending : Conclude(r, result)

CreationSpec == CreationInit /\ [][CreationNext]_vars

-----------------------------------------------------------------------------

\* Rows, requests and the order of updates have their types.
CreationTypeOK ==
  /\ row \in [Release -> Row \cup {NoRelease}]
  /\ newer \subseteq Release \X Release
  /\ later \subseteq Release \X Release
  /\ events \subseteq Release \X {"release_created", "rollback_requested", "release_retried"}
  /\ step \in [Client -> Step]
  /\ call \in [Client -> Call \cup {NoCall}]
  /\ version \in [Client -> Version \cup {NoVersion}]
  /\ item \in [Client -> Release \cup {NoRelease}]

\* However the requests that carry one key interleave, one release has it.
OneReleasePerKey ==
  \A k \in Key, r1, r2 \in Inserted : row[r1].key = k /\ row[r2].key = k => r1 = r2

HasItem(c) == step[c] \in {"created_event", "link", "op_event", "answered"}

\* The release a request is given, inserted or found, is what it asked for.
AnswerIsWhatWasAsked ==
  \A c \in Client : HasItem(c) =>
    /\ item[c] \in Inserted
    /\ row[item[c]].target = call[c].target
    /\ row[item[c]].version = version[c]
    /\ row[item[c]].creator = call[c].creator
    /\ row[item[c]].key = call[c].key

\* A request past its choice of a version is a call for a version.
Resolved ==
  \A c \in Client :
    /\ step[c] = "choose" => call[c] \in Call
    /\ step[c] \in {"lookup", "insert", "created_event", "link", "op_event", "answered"} =>
         call[c] \in Call /\ version[c] \in Version

\* The inductive invariant of the creation of releases: what its steps rely on
\* and restore.
CreationInv == CreationTypeOK /\ Resolved /\ OneReleasePerKey /\ AnswerIsWhatWasAsked

\* A release that rolls back another one goes to the same target, although
\* the link is written later and to whatever release Create answered.
LinkedOnItsTarget ==
  \A r \in Inserted : row[r].rollbackOf # NoRelease =>
    row[r].rollbackOf \in Inserted /\ row[row[r].rollbackOf].target = row[r].target

\* The audit trail says rollback_requested of linked releases only.
AuditedRollbackIsLinked ==
  \A r \in Inserted : <<r, "rollback_requested">> \in events => row[r].rollbackOf # NoRelease

\* A rollback that names no version goes to one that was deployed on its
\* service and environment, is not the version it takes back, and is the last
\* such one: no other was deployed after it.  A release that was linked again
\* after its end counts as deployed then.
RecommendedIsTheLast ==
  [][\A c \in Client : step[c] = "choose" /\ step'[c] = "lookup" =>
       LET o == call[c].original IN
       \E r \in Deployed(o) :
         /\ row[r].version = version'[c]
         /\ version'[c] # row[o].version
         /\ \A q \in Deployed(o) : <<q, r>> \in later => row[q].version = row[o].version]_vars

\* A release audited as a retry repeats a release that failed.
RetryFollowsFailure ==
  \A r \in Inserted : <<r, "release_retried">> \in events =>
    \E o \in Inserted : /\ row[o].status = "failed"
                        /\ row[o].version = row[r].version
                        /\ row[o].target = row[r].target

\* The key's release, and the answers of the requests that carry the key.
KeyBinding(k) ==
  IF WithKey(k) = {} THEN NoRelease
  ELSE LET r == CHOOSE r \in WithKey(k) : TRUE
       IN  [item |-> r,
            content |-> [target |-> row[r].target, version |-> row[r].version, creator |-> row[r].creator]]

RequestAnswer(c) ==
  IF step[c] = "answered" /\ call[c].key # NoKey
  THEN [key |-> call[c].key, item |-> item[c],
        content |-> [target |-> call[c].target, version |-> version[c], creator |-> call[c].creator]]
  ELSE NoRelease

Keys == INSTANCE IdempotentKeys WITH
  Item <- Release,
  Content <- [target : Target, version : Version, creator : Creator],
  Unbound <- NoRelease,
  NoReply <- NoRelease,
  bound <- [k \in Key |-> KeyBinding(k)],
  reply <- [c \in Client |-> RequestAnswer(c)]

ASSUME BindingAssumption == NoRelease \notin Keys!Binding

\* Creating releases keeps what an idempotency key promises: one release per
\* key, and no answer but that release to those who ask for its content.
ImplementsIdempotentKeys == Keys!KeysSpec

-----------------------------------------------------------------------------
(* What the documentation says and the code does not do.                   *)

\* The call asks for what the one that inserted r asked for.
Repeats(c, r) ==
  /\ row[r].op = call[c].op
  /\ row[r].named = call[c].version
  /\ row[r].target = call[c].target
  /\ row[r].creator = call[c].creator
  /\ call[c].op = "rollback" => row[r].rollbackOf = call[c].original

\* A request that repeats an earlier one, or a concurrent one, is not
\* answered with the error of the index.
DuplicateIsReplayed ==
  \A c \in Client, r \in Inserted :
    step[c] = "duplicate" /\ r \in WithKey(call[c].key) => ~Repeats(c, r)
=============================================================================
