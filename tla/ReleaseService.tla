--------------------------- MODULE ReleaseService ---------------------------
(***************************************************************************)
(* The release handlers of the API (internal/app/release.go): Create,      *)
(* Confirm, Reject and Cancel, and the patches of environments and users   *)
(* (internal/httpapi/inventory.go) whose rows Confirm reads.  A handler is *)
(* a sequence of separate reads and transactions without a lock, so what   *)
(* it read may be stale when it writes.  A Client is a request in flight;  *)
(* it serves one call at a time and then another.                          *)
(*                                                                         *)
(* Preflight's checks of versions, artifacts, environment variables and    *)
(* clusters look at nothing these modules keep; when one of them blocks,   *)
(* the handler returns an error, which is GiveUp.                          *)
(***************************************************************************)
EXTENDS ReleaseStore

CONSTANTS
  Client,        \* requests being served at the same time
  User,          \* users
  ApiKey,        \* API keys
  CreatorOf,     \* who asked for each release
  Production,    \* the environments with is_production at first
  StandingOf,    \* the standing of each user at first
  Reclassified,  \* the environments whose is_production an instance patches
  Reappointed,   \* the users whose role or enabled an instance patches
  NoActor        \* the value of a reference to no user

Actor == User \cup ApiKey

\* Role and enabled of a user as Confirm tells them apart; a user who was
\* deleted is refused like one who is disabled.
Standing == {"admin", "member", "disabled"}

ConfirmMode == {"self_confirm", "admin_confirm"}

ASSUME ServiceAssumption ==
  /\ CreatorOf \in [Release -> Actor]
  /\ Production \subseteq Environment
  /\ StandingOf \in [User -> Standing]
  /\ ApiKey \cap User = {}
  /\ NoActor \notin Actor

VARIABLES
  at,           \* the step the handler is at
  subject,      \* the release the call is about
  caller,       \* who calls
  mode,         \* preflight.ConfirmMode, as Confirm keeps it
  event,        \* the event the handler writes before it answers
  confirmedBy,  \* release_requests.confirmed_by_user_id
  production,   \* the environments with is_production
  standing,     \* users.role and users.enabled
  met           \* history: what was so at some moment of a Confirm, namely
                \* the mode of its environment and the standing of its caller

accounts == <<production, standing>>
serviceVars == <<at, subject, caller, mode, event, confirmedBy, production, standing, met>>

HandlerStep ==
  {"idle", "create", "preflight", "authorize", "queue", "reject", "cancel", "read_back", "event"}

\* The steps of a Confirm that has not written yet.
Confirming == {"preflight", "authorize", "queue"}

ServiceTypeOK ==
  /\ at \in [Client -> HandlerStep]
  /\ subject \in [Client -> Release \cup {NoRelease}]
  /\ caller \in [Client -> Actor \cup {NoActor}]
  /\ mode \in [Client -> ConfirmMode \cup {"none"}]
  /\ event \in [Client -> EventType \cup {"none"}]
  /\ confirmedBy \in [Release -> Actor \cup {NoActor}]
  /\ production \subseteq Environment
  /\ standing \in [User -> Standing]
  /\ met \in [Client -> SUBSET (ConfirmMode \cup Standing)]

ServiceInit ==
  /\ at = [c \in Client |-> "idle"]
  /\ subject = [c \in Client |-> NoRelease]
  /\ caller = [c \in Client |-> NoActor]
  /\ mode = [c \in Client |-> "none"]
  /\ event = [c \in Client |-> "none"]
  /\ confirmedBy = [r \in Release |-> NoActor]
  /\ production = Production
  /\ standing = StandingOf
  /\ met = [c \in Client |-> {}]

-----------------------------------------------------------------------------

\* The part of Preflight that depends on other releases and on the freeze.
PreflightPasses(r) ==
  /\ ~frozen[EnvironmentOf[TargetOf[r]]]
  /\ ~RunningConflict(r)

\* The confirm_mode of Preflight, with the production environments P.
ModeIn(P, r) == IF EnvironmentOf[TargetOf[r]] \in P THEN "admin_confirm" ELSE "self_confirm"

\* What bears on a Confirm of r by a, with production environments P and
\* standings S.
FactsIn(P, S, r, a) == {ModeIn(P, r)} \cup (IF a \in User THEN {S[a]} ELSE {})

\* Mutant: the production rule is forgotten.
MayConfirm_AnyEnvironment(a, r, m) ==
  IF a \in User THEN standing[a] = "admin" \/ a = CreatorOf[r] ELSE a = CreatorOf[r]

\* The actor checks of Confirm, under the mode m of its preflight: an enabled
\* administrator for admin_confirm, and for self_confirm the release's creator,
\* who is enabled or is an API key.
MayConfirm(a, r, m) ==
  /\ a \in User => standing[a] # "disabled"
  /\ m = "self_confirm" => a = CreatorOf[r]
  /\ m = "admin_confirm" => a \in User /\ standing[a] = "admin"

\* validateReleaseActionActor, for Reject and Cancel.
MayAct(a, r) == a \in User \/ a = CreatorOf[r]

\* The middleware lets a user in whose row is enabled at that moment.
Begin(c, step, r, a) ==
  /\ at[c] = "idle"
  /\ a \in User => standing[a] # "disabled"
  /\ at' = [at EXCEPT ![c] = step]
  /\ subject' = [subject EXCEPT ![c] = r]
  /\ caller' = [caller EXCEPT ![c] = a]
  /\ met' = [met EXCEPT ![c] =
               IF step \in Confirming THEN FactsIn(production, standing, r, a) ELSE {}]
  /\ UNCHANGED <<storeVars, mode, event, confirmedBy, accounts>>

Advance(c, step) ==
  /\ at' = [at EXCEPT ![c] = step]
  /\ UNCHANGED <<subject, caller, event, accounts, met>>

\* The transaction is done; an event of type e is written next.
AdvanceToEvent(c, e) ==
  /\ at' = [at EXCEPT ![c] = "event"]
  /\ event' = [event EXCEPT ![c] = e]
  /\ mode' = [mode EXCEPT ![c] = "none"]
  /\ met' = [met EXCEPT ![c] = {}]
  /\ UNCHANGED <<subject, caller, accounts>>

Answer(c) ==
  /\ at' = [at EXCEPT ![c] = "idle"]
  /\ subject' = [subject EXCEPT ![c] = NoRelease]
  /\ caller' = [caller EXCEPT ![c] = NoActor]
  /\ mode' = [mode EXCEPT ![c] = "none"]
  /\ event' = [event EXCEPT ![c] = "none"]
  /\ met' = [met EXCEPT ![c] = {}]
  /\ UNCHANGED accounts

-----------------------------------------------------------------------------
(* Create: preflight, insert, event.                                       *)

CreateBegin(c, r) ==
  /\ release[r] = "none"
  /\ PreflightPasses(r)
  /\ Begin(c, "create", r, CreatorOf[r])

CreateInsert(c) ==
  /\ at[c] = "create"
  /\ CreateReleaseRequest(subject[c])
  /\ AdvanceToEvent(c, "release_created")
  /\ UNCHANGED <<frozen, events, confirmedBy>>

-----------------------------------------------------------------------------
(* Confirm: read, preflight, authorize, queue, event.                      *)

\* A release that has left pending_confirm is returned as it is.
ConfirmBegin(c, r, a) ==
  /\ release[r] = "pending_confirm"
  /\ Begin(c, "preflight", r, a)

ConfirmPreflight(c) ==
  /\ at[c] = "preflight"
  /\ PreflightPasses(subject[c])
  /\ mode' = [mode EXCEPT ![c] = ModeIn(production, subject[c])]
  /\ Advance(c, "authorize")
  /\ UNCHANGED <<storeVars, confirmedBy>>

ConfirmAuthorize(c) ==
  /\ at[c] = "authorize"
  /\ MayConfirm(caller[c], subject[c], mode[c])
  /\ Advance(c, "queue")
  /\ UNCHANGED <<storeVars, mode, confirmedBy>>

\* The transaction expands the target to the members it has at that moment;
\* neither the environment nor the user is looked at again.
ConfirmQueue(c) ==
  /\ at[c] = "queue"
  /\ \E refs \in Memberships[TargetOf[subject[c]]] :
       ConfirmAndQueueRelease(subject[c], refs)
  /\ confirmedBy' = [confirmedBy EXCEPT ![subject[c]] =
                       IF caller[c] \in User THEN caller[c] ELSE NoActor]
  /\ AdvanceToEvent(c, "release_confirmed")
  /\ UNCHANGED <<frozen, events>>

-----------------------------------------------------------------------------
(* Reject: read, update, event.  The status is not looked at before the    *)
(* update, nor the number of rows it affected after it.                    *)

RejectBegin(c, r, a) ==
  /\ release[r] # "none"
  /\ MayAct(a, r)
  /\ Begin(c, "reject", r, a)

RejectUpdate(c) ==
  /\ at[c] = "reject"
  /\ RejectRelease(subject[c])
  /\ AdvanceToEvent(c, "release_rejected")
  /\ UNCHANGED <<frozen, events, confirmedBy>>

-----------------------------------------------------------------------------
(* Cancel: read, update, read again, event.                                *)

CancelBegin(c, r, a) ==
  /\ release[r] \in {"pending_confirm", "queued"}
  /\ MayAct(a, r)
  /\ Begin(c, "cancel", r, a)

CancelUpdate(c) ==
  /\ at[c] = "cancel"
  /\ CancelRelease(subject[c])
  /\ Advance(c, "read_back")
  /\ UNCHANGED <<frozen, events, mode, confirmedBy>>

\* Mutant: the answer of the update is not looked at.
CancelSucceeded_Always(r) == r = r

\* The status the release has after the transaction.
CancelSucceeded(r) == release[r] = "cancelled"

CancelReadBack(c) ==
  /\ at[c] = "read_back"
  /\ IF CancelSucceeded(subject[c]) THEN AdvanceToEvent(c, "release_cancelled") ELSE Answer(c)
  /\ UNCHANGED <<storeVars, confirmedBy>>

-----------------------------------------------------------------------------
(* The end of every call.                                                  *)

WriteEvent(c) ==
  /\ at[c] = "event"
  /\ CreateReleaseEvent({subject[c]}, event[c])
  /\ Answer(c)
  /\ UNCHANGED <<tables, frozen, confirmedBy>>

\* The handler returns an error (a check that fails, an update that affects
\* no row, a database error), or it dies with its process.
GiveUp(c) ==
  /\ at[c] # "idle"
  /\ Answer(c)
  /\ UNCHANGED <<storeVars, confirmedBy>>

Handle(c) ==
  \/ \E r \in Release : CreateBegin(c, r)
  \/ CreateInsert(c)
  \/ \E r \in Release, a \in Actor : ConfirmBegin(c, r, a)
  \/ ConfirmPreflight(c)
  \/ ConfirmAuthorize(c)
  \/ ConfirmQueue(c)
  \/ \E r \in Release, a \in Actor : RejectBegin(c, r, a)
  \/ RejectUpdate(c)
  \/ \E r \in Release, a \in Actor : CancelBegin(c, r, a)
  \/ CancelUpdate(c)
  \/ CancelReadBack(c)
  \/ WriteEvent(c)
  \/ GiveUp(c)

-----------------------------------------------------------------------------
(* patchEnvironment and patchUser.                                         *)

\* Every Confirm on its way meets the new state P of the environments and S of
\* the users.
Witnessed(P, S) ==
  met' = [c \in Client |->
            IF at[c] \in Confirming
            THEN met[c] \cup FactsIn(P, S, subject[c], caller[c])
            ELSE met[c]]

\* patchEnvironment reads the row, overlays the patch and writes the whole row,
\* so it may also put back what another patch has just changed: whatever it
\* writes, both columns hold one of the values ever sent.
PatchEnvironment(e) ==
  /\ \E b \in BOOLEAN : frozen' = [frozen EXCEPT ![e] = b]
  /\ \/ UNCHANGED production
     \/ e \in Reclassified /\ production' \in {production \cup {e}, production \ {e}}
  /\ Witnessed(production', standing)
  /\ UNCHANGED <<tables, events, at, subject, caller, mode, event, confirmedBy, standing>>

\* patchUser or deleteUser; which of them UserAdmin's rules let through is not
\* looked at here.
PatchUser(u) ==
  /\ u \in Reappointed
  /\ \E new \in Standing : standing' = [standing EXCEPT ![u] = new]
  /\ Witnessed(production, standing')
  /\ UNCHANGED <<storeVars, at, subject, caller, mode, event, confirmedBy, production>>

Patch ==
  \/ \E e \in Environment : PatchEnvironment(e)
  \/ \E u \in User : PatchUser(u)
=============================================================================
