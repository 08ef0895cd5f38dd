----------------------------- MODULE UserAdmin ------------------------------
(***************************************************************************)
(* Administration of users (internal/httpapi/inventory.go: patchUser,      *)
(* resetUserPassword, deleteUser; session.go: login, createSessionUser)    *)
(* and the sessions it revokes (auth.go).  A handler reads the user, counts *)
(* the administrators and writes, in three statements without a lock.      *)
(*                                                                         *)
(* A session is a signed token of a user's id and session_version; the     *)
(* server keeps none, and checks the token against the row every time.     *)
(***************************************************************************)
EXTENDS Naturals, FiniteSets

CONSTANTS
  User,        \* ids of users; an id is never used again
  Root,        \* the users with the name admin
  Shielded,    \* the users protected in demo mode
  Founders,    \* the administrators there are at the start
  Client,      \* requests being served at the same time
  MaxVersion,  \* the bound on session_version
  Absent, Deleted, NoUser, NoAccount

Role == {"admin", "employee"}
Standing == [role : Role, enabled : BOOLEAN]
Account == [role : Role, enabled : BOOLEAN, version : 1 .. MaxVersion]
Protected == Root \cup Shielded

ASSUME UserAssumption ==
  /\ Founders \subseteq User
  /\ Founders # {}
  /\ Root \cup Shielded \subseteq User
  /\ MaxVersion \in Nat \ {0}
  /\ NoUser \notin User
  /\ {Absent, Deleted} \cap Account = {}
  /\ Absent # Deleted

VARIABLES
  account,   \* users
  tokens,    \* the tokens issued: pairs of a user and a session_version
  step,      \* the step a request is at
  actor,     \* whose session it carries; NoUser for an API key with admin:write
  target,    \* the user it is about
  seen,      \* the role and the enabled flag it read
  next,      \* the role and the enabled flag it writes
  overtaken  \* history: the requests since whose first read another one has
             \* written a role or a flag, or deleted a user

request == <<step, actor, target, seen, next, overtaken>>
vars == <<account, tokens, step, actor, target, seen, next, overtaken>>

UserInit ==
  /\ account = [u \in User |-> IF u \in Founders
                               THEN [role |-> "admin", enabled |-> TRUE, version |-> 1]
                               ELSE Absent]
  /\ tokens = {}
  /\ step = [c \in Client |-> "idle"]
  /\ actor = [c \in Client |-> NoUser]
  /\ target = [c \in Client |-> NoUser]
  /\ seen = [c \in Client |-> NoAccount]
  /\ next = [c \in Client |-> NoAccount]
  /\ overtaken = {}

-----------------------------------------------------------------------------

Existing == {u \in User : account[u] \notin {Absent, Deleted}}
IsAdmin(standing) == standing.role = "admin" /\ standing.enabled
StandingOf(u) == [role |-> account[u].role, enabled |-> account[u].enabled]

\* CountEnabledAdmins.
EnabledAdmins == {u \in Existing : IsAdmin(account[u])}

\* requireSessionOrAPIKey: the user is enabled and has the token's version.
Valid(t) == t[1] \in Existing /\ account[t[1]].enabled /\ account[t[1]].version = t[2]

\* withAdmin and withAdminSession, when the request comes in.
AdminSession(u) == u \in EnabledAdmins /\ <<u, account[u].version>> \in tokens

\* Mutant: the protection of named users is forgotten.
ProtectionAllows_Always(a, u, standing) == a = a /\ u = u /\ standing = standing

\* Only admin himself changes admin, and nobody a shielded user; neither can
\* be disabled or demoted.
ProtectionAllows(a, u, standing) ==
  u \in Protected =>
    /\ u \in Root \ Shielded
    /\ a \in Root
    /\ IsAdmin(standing)

\* Mutant: the comparison is off by one.
EnoughAdmins_One == Cardinality(EnabledAdmins) >= 1

EnoughAdmins == Cardinality(EnabledAdmins) > 1

\* Mutant: a change of role or of the enabled flag keeps the sessions.
NextVersion_Same(v) == v

NextVersion(v) == v + 1

Begin(c, s, a, u) ==
  /\ step[c] = "idle"
  /\ step' = [step EXCEPT ![c] = s]
  /\ actor' = [actor EXCEPT ![c] = a]
  /\ target' = [target EXCEPT ![c] = u]
  /\ seen' = [seen EXCEPT ![c] = StandingOf(u)]
  /\ UNCHANGED overtaken

End(c) ==
  /\ step' = [step EXCEPT ![c] = "idle"]
  /\ actor' = [actor EXCEPT ![c] = NoUser]
  /\ target' = [target EXCEPT ![c] = NoUser]
  /\ seen' = [seen EXCEPT ![c] = NoAccount]
  /\ next' = [next EXCEPT ![c] = NoAccount]

\* Request c ends with a write of a role or a flag: it overtakes the others.
EndOvertaking(c) ==
  /\ End(c)
  /\ overtaken' = {d \in Client \ {c} : step[d] # "idle"}

EndQuietly(c) ==
  /\ End(c)
  /\ overtaken' = overtaken \ {c}

-----------------------------------------------------------------------------
(* Sessions.                                                               *)

Login(u) ==
  /\ u \in Existing
  /\ account[u].enabled
  /\ tokens' = tokens \cup {<<u, account[u].version>>}
  /\ UNCHANGED <<account, request>>

-----------------------------------------------------------------------------
(* Users.  The version is bounded: a write that would pass MaxVersion is   *)
(* not explored.                                                           *)

\* By an administrator or an API key with admin:write.
CreateSessionUser(u, role) ==
  /\ account[u] = Absent
  /\ account' = [account EXCEPT ![u] = [role |-> role, enabled |-> TRUE, version |-> 1]]
  /\ UNCHANGED <<tokens, request>>

\* patchUser reads the user; the patch is what it changes of it.
PatchBegin(c, a, u, standing) ==
  /\ u \in Existing
  /\ a = NoUser \/ AdminSession(a)
  /\ Begin(c, "patch", a, u)
  /\ next' = [next EXCEPT ![c] = standing]
  /\ UNCHANGED <<account, tokens>>

\* validateUserPatch.
PatchCheck(c) ==
  /\ step[c] = "patch"
  /\ ProtectionAllows(actor[c], target[c], next[c])
  /\ IsAdmin(seen[c]) /\ ~IsAdmin(next[c]) => EnoughAdmins
  /\ step' = [step EXCEPT ![c] = "update"]
  /\ UNCHANGED <<account, tokens, actor, target, seen, next, overtaken>>

\* Mutant: sessions end only when the patch changes what the request read.
UpdateUser_IfPatched(c) ==
  /\ step[c] = "update"
  /\ target[c] \in Existing
  /\ NextVersion(account[target[c]].version) <= MaxVersion
  /\ account' = [account EXCEPT ![target[c]] =
                   [role |-> next[c].role, enabled |-> next[c].enabled,
                    version |-> IF next[c] = seen[c] THEN @.version ELSE NextVersion(@.version)]]
  /\ EndOvertaking(c)
  /\ UNCHANGED tokens

\* UpdateUser writes role and enabled of what the request read and patched.
UpdateUser(c) ==
  /\ step[c] = "update"
  /\ target[c] \in Existing
  /\ NextVersion(account[target[c]].version) <= MaxVersion
  /\ account' = [account EXCEPT ![target[c]] =
                   [role |-> next[c].role, enabled |-> next[c].enabled,
                    version |-> NextVersion(@.version)]]
  /\ EndOvertaking(c)
  /\ UNCHANGED tokens

DeleteBegin(c, a, u) ==
  /\ u \in Existing \ (Protected \cup {a})
  /\ AdminSession(a)
  /\ Begin(c, "delete_check", a, u)
  /\ UNCHANGED <<account, tokens, next>>

\* The rest of validateUserDelete.
DeleteCheck(c) ==
  /\ step[c] = "delete_check"
  /\ IsAdmin(seen[c]) => EnoughAdmins
  /\ step' = [step EXCEPT ![c] = "delete"]
  /\ UNCHANGED <<account, tokens, actor, target, seen, next, overtaken>>

DeleteUser(c) ==
  /\ step[c] = "delete"
  /\ account' = [account EXCEPT ![target[c]] = Deleted]
  /\ EndOvertaking(c)
  /\ UNCHANGED tokens

\* validatePasswordReset looks at names only.
ResetBegin(c, a, u) ==
  /\ u \in Existing \ Shielded
  /\ AdminSession(a)
  /\ u \in Root => a \in Root
  /\ Begin(c, "set_password", a, u)
  /\ UNCHANGED <<account, tokens, next>>

SetUserPassword(c) ==
  /\ step[c] = "set_password"
  /\ target[c] \in Existing
  /\ account[target[c]].version < MaxVersion
  /\ account' = [account EXCEPT ![target[c]].version = @ + 1]
  /\ EndQuietly(c)
  /\ UNCHANGED tokens

\* A check fails, the user is gone, the database fails, or the process ends.
GiveUp(c) ==
  /\ step[c] # "idle"
  /\ EndQuietly(c)
  /\ UNCHANGED <<account, tokens>>

Handle(c) ==
  \/ \E a \in User \cup {NoUser}, u \in User, standing \in Standing : PatchBegin(c, a, u, standing)
  \/ \E a, u \in User : DeleteBegin(c, a, u) \/ ResetBegin(c, a, u)
  \/ PatchCheck(c)
  \/ UpdateUser(c)
  \/ DeleteCheck(c)
  \/ DeleteUser(c)
  \/ SetUserPassword(c)
  \/ GiveUp(c)

UserNext ==
  \/ \E u \in User : Login(u)
  \/ \E u \in User, role \in Role : CreateSessionUser(u, role)
  \/ \E c \in Client : Handle(c)

UserSpec == UserInit /\ [][UserNext]_vars

-----------------------------------------------------------------------------

\* Users, tokens and requests have their types.
UserTypeOK ==
  /\ account \in [User -> Account \cup {Absent, Deleted}]
  /\ tokens \subseteq User \X (1 .. MaxVersion)
  /\ step \in [Client -> {"idle", "patch", "update", "delete_check", "delete", "set_password"}]
  /\ actor \in [Client -> User \cup {NoUser}]
  /\ target \in [Client -> User \cup {NoUser}]
  /\ seen \in [Client -> Standing \cup {NoAccount}]
  /\ next \in [Client -> Standing \cup {NoAccount}]
  /\ overtaken \subseteq Client

\* There is an enabled administrator, whatever requests cross, when one of the
\* first administrators is protected.  The count cannot replace that: it may
\* be stale when a request writes, and two that cross remove the last two.
AlwaysAnAdmin == EnabledAdmins # {}

\* The count fails in no other way: the last enabled administrator is never a
\* protected user, and goes only by the update or the deletion of a request
\* that another one overtook after its first read.
LastAdminStays ==
  [][EnabledAdmins # {} /\ EnabledAdmins' = {} =>
       /\ EnabledAdmins \cap Protected = {}
       /\ \E c \in overtaken : UpdateUser(c) \/ DeleteUser(c)]_vars

\* A session that has been revoked, by a disabling, a new role, a new
\* password or a deletion, is never accepted again, not even when the user is
\* enabled again.
RevokedForGood == [][\A t \in tokens : ~Valid(t) => ~Valid(t)']_vars

\* Every change of a user's role or enabled flag revokes the sessions the
\* user has, also when the change comes out of a stale read.
ChangeRevokes ==
  [][\A t \in tokens : t[1] \in Existing /\ t[1] \in Existing' =>
       (StandingOf(t[1])' # StandingOf(t[1]) => ~Valid(t)')]_vars

-----------------------------------------------------------------------------
(* Why the users stay protected, whatever requests cross.                  *)

\* What a request holds while it is on its way: the user it found, and a
\* protected user is only ever written as an enabled administrator.
RequestsProtect ==
  \A c \in Client : step[c] # "idle" =>
    /\ target[c] \in User
    /\ account[target[c]] # Absent
    /\ step[c] \in {"patch", "update"} => next[c] \in Standing
    /\ step[c] = "update" /\ target[c] \in Protected => IsAdmin(next[c])
    /\ step[c] \in {"delete_check", "delete"} => target[c] \notin Protected

\* What a request read still holds unless it was overtaken, and one that is to
\* take away an administrator has counted another.
ReadsHold ==
  \A c \in Client \ overtaken : step[c] # "idle" =>
    /\ target[c] \in Existing
    /\ seen[c] = StandingOf(target[c])
    /\ \/ step[c] = "update" /\ IsAdmin(seen[c]) /\ ~IsAdmin(next[c])
       \/ step[c] = "delete" /\ IsAdmin(seen[c])
       => \E u \in EnabledAdmins : u # target[c]

\* Protected users who were administrators at the start still are.  (Another
\* user may get a protected name later, as an employee.)
ProtectedAreAdmins == Protected \cap Founders \subseteq EnabledAdmins

\* A token is of a user there was, and of a version the user has had.
TokensAreOld ==
  \A t \in tokens :
    /\ account[t[1]] # Absent
    /\ t[1] \in Existing => t[2] <= account[t[1]].version

\* The invariant, preserved by every step.
UserInv == UserTypeOK /\ RequestsProtect /\ ReadsHold /\ ProtectedAreAdmins /\ TokensAreOld
=============================================================================
